---------------------------- MODULE Spec2Model ----------------------------
(***************************************************************************)
(* One-way range observable, link-end scaling and observation partial of   *)
(* Tudat, as a state machine.                                              *)
(*                                                                         *)
(* Real numbers are exact rationals <<numerator, denominator>> in lowest   *)
(* terms with a positive denominator, so equality of values is equality   *)
(* of tuples.  Lengths are expressed in a unit in which the speed of light *)
(* is SPEED_OF_LIGHT units per second.  Geometry is restricted to link     *)
(* ends at distinct positions whose mutual distance is an integer and to   *)
(* velocities below the speed of light, so every division and square root  *)
(* the code performs is defined and exact.                                 *)
(***************************************************************************)
EXTENDS Integers, Sequences, FiniteSets, TLC

(***************************************************************************)
(* Bounds of the model.                                                    *)
(***************************************************************************)
\* observation epochs are the integers 0..MaxTime
MaxTime == 1
\* the caller's output vectors hold at most MaxObservations observations
\* (two entries each) before the caller starts with fresh vectors
MaxObservations == 1
\* iteration bound of the light-time solver
MaxIterations == 3

(***************************************************************************)
(* Exact rational arithmetic.                                              *)
(***************************************************************************)
Abs(n) == IF n < 0 THEN -n ELSE n

\* the element of a one-element set; TheValue({F(x) : x \in {e}}) is F(e)
\* with e evaluated once
TheValue(S) == CHOOSE x \in S : TRUE

RECURSIVE Gcd(_, _)
Gcd(a, b) == IF b = 0 THEN a ELSE Gcd(b, a % b)

\* the rational n/d (d # 0) in lowest terms with positive denominator
Rat(n, d) ==
    LET Reduce(a, b, g) ==
            IF b < 0 THEN <<(-a) \div g, (-b) \div g>>
                     ELSE <<a \div g, b \div g>>
    IN  TheValue({Reduce(x[1], x[2], Gcd(Abs(x[1]), Abs(x[2]))) :
                     x \in {<<n, d>>}})

RInt(n) == <<n, 1>>
RAdd(p, q) == Rat(p[1] * q[2] + q[1] * p[2], p[2] * q[2])
RNeg(p) == <<-p[1], p[2]>>
RSub(p, q) == RAdd(p, RNeg(q))
RMul(p, q) == Rat(p[1] * q[1], p[2] * q[2])
RDiv(p, q) == Rat(p[1] * q[2], p[2] * q[1])
RLess(p, q) == p[1] * q[2] < q[1] * p[2]
RZero == RInt(0)
ROne == RInt(1)

\* square root of a perfect square (every squared distance of the model is one)
RECURSIVE SqrtFrom(_, _)
SqrtFrom(n, k) == IF k * k >= n THEN k ELSE SqrtFrom(n, k + 1)

Sqrt(n) == TheValue({SqrtFrom(m, 0) : m \in {n}})

(***************************************************************************)
(* Vectors and matrices.  A state is a 6-tuple of integers (position,      *)
(* velocity); a 1x3 or 3x1 matrix is a 3-tuple of rationals; a 3xn matrix  *)
(* is a 3-tuple of rows of n rationals.                                    *)
(***************************************************************************)
\* Eigen's v.segment( start, n ) with a 0-based start
Segment(v, start, n) == [k \in 1..n |-> v[start + k]]

VecSub(a, b) == [k \in 1..3 |-> a[k] - b[k]]
VecNorm(a) ==
    TheValue({Sqrt(v[1] * v[1] + v[2] * v[2] + v[3] * v[3]) : v \in {a}})
\* integer vector divided by an integer
VecOver(a, n) == [k \in 1..3 |-> Rat(a[k], n)]
\* rational vector dotted with an integer vector
Dot(u, v) ==
    RAdd(RMul(u[1], RInt(v[1])),
         RAdd(RMul(u[2], RInt(v[2])), RMul(u[3], RInt(v[3]))))
\* rational row or matrix times a rational scalar
Scale(u, s) == [k \in DOMAIN u |-> RMul(u[k], s)]
\* 1x3 row times a 3xn matrix
RowTimes(row, m) ==
    [j \in DOMAIN m[1] |->
        RAdd(RMul(row[1], m[1][j]),
             RAdd(RMul(row[2], m[2][j]), RMul(row[3], m[3][j])))]

(***************************************************************************)
(* Physical constants and link-end roles.                                  *)
(***************************************************************************)
SPEED_OF_LIGHT == 5

transmitter == "transmitter"
retransmitter == "retransmitter"
receiver == "receiver"
LinkEndType == {transmitter, retransmitter, receiver}

(***************************************************************************)
(* State Provider: the state of a link end as a pure function of time.     *)
(* A body rests at one place until its switch epoch and at another from    *)
(* then on (a tabulated ephemeris); its velocity entries are part of the   *)
(* tabulated state.  All mutual distances are 5 or 13 length units.        *)
(***************************************************************************)
Ephemerides ==
    << \* both ends at rest, one light-second apart, zero velocity
      [transmitter |-> [before |-> <<0, 0, 0, 0, 0, 0>>,
                        after  |-> <<0, 0, 0, 0, 0, 0>>, switch |-> 0],
       receiver    |-> [before |-> <<3, 4, 0, 0, 0, 0>>,
                        after  |-> <<3, 4, 0, 0, 0, 0>>, switch |-> 0]],
      \* the transmitter moves at epoch 1
      [transmitter |-> [before |-> <<0, 0, 0, 1, 2, -1>>,
                        after  |-> <<0, 0, 12, 1, 2, -1>>, switch |-> 1],
       receiver    |-> [before |-> <<3, 4, 0, 2, -1, 1>>,
                        after  |-> <<3, 4, 0, 2, -1, 1>>, switch |-> 0]],
      \* the receiver moves at epoch 2
      [transmitter |-> [before |-> <<0, 0, 12, 0, 1, 0>>,
                        after  |-> <<0, 0, 12, 0, 1, 0>>, switch |-> 0],
       receiver    |-> [before |-> <<3, 4, 0, -1, 0, 2>>,
                        after  |-> <<3, 4, 12, -1, 0, 2>>, switch |-> 2]],
      \* both move
      [transmitter |-> [before |-> <<0, 0, 0, 0, 0, 3>>,
                        after  |-> <<0, 0, 12, 0, 0, 3>>, switch |-> 2],
       receiver    |-> [before |-> <<3, 4, 12, 1, 1, 1>>,
                        after  |-> <<3, 4, 0, 1, 1, 1>>, switch |-> 1]] >>

\* state of link end `le` at rational time t under ephemeris e
StateAt(e, le, t) ==
    IF RLess(t, RInt(e[le].switch)) THEN e[le].before ELSE e[le].after

(***************************************************************************)
(* Light-Time Calculator: fixed-point iteration on the light time.         *)
(* `delay` is the sum of the correction terms of the leg, in seconds.      *)
(* The iteration converges when two successive light times agree (every    *)
(* light time of the model is a multiple of 1/SPEED_OF_LIGHT, the absolute *)
(* tolerance is smaller than that).                                        *)
(***************************************************************************)
\* Euclidean light time plus corrections between two states
LegLightTime(rxState, txState, delay) ==
    RAdd(Rat(VecNorm(VecSub(Segment(rxState, 0, 3), Segment(txState, 0, 3))),
             SPEED_OF_LIGHT),
         delay)

\* time of the endpoint that is not the anchor
OtherTime(time, lt, isTimeAtReception) ==
    IF isTimeAtReception THEN RSub(time, lt) ELSE RAdd(time, lt)

\* states of receiver and transmitter for a light-time estimate lt
StatesFor(e, time, lt, isTimeAtReception) ==
    IF isTimeAtReception
    THEN [rx |-> StateAt(e, receiver, time),
          tx |-> StateAt(e, transmitter, OtherTime(time, lt, TRUE))]
    ELSE [rx |-> StateAt(e, receiver, OtherTime(time, lt, FALSE)),
          tx |-> StateAt(e, transmitter, time)]

RECURSIVE IterateLightTime(_, _, _, _, _, _)
IterateLightTime(e, delay, time, isTimeAtReception, lt, count) ==
    LET Step(s, next) ==
            IF RLess(next, RZero)
            THEN [status |-> "InvalidGeometry", lightTime |-> RZero,
                  rx |-> s.rx, tx |-> s.tx]
            ELSE IF next = lt
            THEN [status |-> "ok", lightTime |-> next, rx |-> s.rx, tx |-> s.tx]
            ELSE IF count >= MaxIterations
            THEN [status |-> "NonConvergence", lightTime |-> RZero,
                  rx |-> s.rx, tx |-> s.tx]
            ELSE IterateLightTime(e, delay, time, isTimeAtReception, next,
                                  count + 1)
        \* the states for the current estimate, then the light time between them
        StepFrom(s) ==
            TheValue({Step(s, next) : next \in {LegLightTime(s.rx, s.tx, delay)}})
    IN  TheValue({StepFrom(s) : s \in {StatesFor(e, time, lt, isTimeAtReception)}})

\* LightTimeCalculator::calculateLightTimeWithLinkEndsStates: the light
\* time and the states of receiver and transmitter it was found with
calculateLightTimeWithLinkEndsStates(e, delay, time, isTimeAtReception) ==
    LET t == RInt(time)
        guess == Rat(VecNorm(VecSub(Segment(StateAt(e, receiver, t), 0, 3),
                                    Segment(StateAt(e, transmitter, t), 0, 3))),
                     SPEED_OF_LIGHT)
    IN  TheValue({IterateLightTime(e, delay, t, isTimeAtReception, g, 0) :
                  g \in {guess}})

\* LightTimeCalculator::calculateLightTime: the light time alone
calculateLightTime(e, delay, time, isTimeAtReception) ==
    TheValue({[status |-> r.status, lightTime |-> r.lightTime] :
              r \in {calculateLightTimeWithLinkEndsStates(e, delay, time,
                                                          isTimeAtReception)}})

(***************************************************************************)
(* Light-time corrections of the leg.  A first-order relativistic          *)
(* correction delays the signal by a term proportional to the              *)
(* gravitational parameter of each of its perturbing bodies, read from the *)
(* body when the correction is evaluated; gravitational parameters are in  *)
(* units in which that term is the parameter divided by the speed of       *)
(* light.  `delay` of a calculator is the sum of its correction terms that *)
(* do not depend on an estimated parameter.                                *)
(***************************************************************************)
Bodies == {"Sun", "Earth", "Mars"}

\* the gravitational parameters the environment is created with
NominalGravitationalParameter ==
    [b \in Bodies |-> IF b = "Sun" THEN 3 ELSE IF b = "Earth" THEN 2 ELSE 1]

RECURSIVE RelativisticCorrection(_, _)
RelativisticCorrection(perturbingBodies, gm) ==
    IF perturbingBodies = <<>>
    THEN RZero
    ELSE RAdd(Rat(gm[Head(perturbingBodies)], SPEED_OF_LIGHT),
              RelativisticCorrection(Tail(perturbingBodies), gm))

\* variant: the correction sums over every body of the environment
CorrectionSum_AllBodies(calculator, gm) ==
    RAdd(calculator.delay, RelativisticCorrection(<<"Sun", "Earth", "Mars">>, gm))

\* the sum of the correction terms of the calculator's leg, in seconds
CorrectionSum(calculator, gm) ==
    RAdd(calculator.delay, RelativisticCorrection(calculator.perturbingBodies, gm))

(***************************************************************************)
(* State.                                                                  *)
(***************************************************************************)
VARIABLES
    lightTimeCalculator_,   \* the model's light-time calculator: ephemeris and correction delay
    receiverState,          \* OneWayRangeObservationModel::receiverState
    transmitterState,       \* OneWayRangeObservationModel::transmitterState
    linkEndTimes,           \* the caller's vector of link-end times
    linkEndStates,          \* the caller's vector of link-end states
    oneWayRangeScaler_,     \* the four members of OneWayRangeScaling
    positionPartialList_,   \* link ends that have a position partial, in map order
    lighTimeCorrectionPartialsFunctions_,  \* attached light-time-correction partial functions
    lastUpdate,             \* history: whether update was called never, once or more often,
                            \* and the link-end states of its latest call
    ret,                    \* the call that has just returned: its arguments and result
    gravitationalParameter, \* the gravitational parameter of each body of the environment
    numericalPartial,       \* progress of a central-difference partial of the observable
    workers,                \* two workers that evaluate one epoch each on the same objects
    estimation,             \* the Estimation Manager
    solve,                  \* a light-time solve in progress, one iteration at a time
    interpolator,           \* a OneDimensionalInterpolator and its latest checkBoundaryCase
    coefficients,           \* the static RungeKuttaCoefficients tables and the callers of get
    rotation,               \* states of the exponential-map rotational propagator
    massRate                \* a MassRatePartial and its latest call

parameterVars == <<gravitationalParameter, numericalPartial>>

\* the caller's vectors and the objects of the link
linkVars == <<lightTimeCalculator_, receiverState, transmitterState, linkEndTimes,
              linkEndStates, oneWayRangeScaler_, positionPartialList_,
              lighTimeCorrectionPartialsFunctions_, lastUpdate, ret>>

\* the objects of the mathematics and propagation utilities
utilityVars == <<interpolator, coefficients, rotation, massRate>>

vars == <<linkVars, parameterVars, workers, estimation, solve, utilityVars>>

\* what the calls of a single caller on the model, the scaling and the
\* partial object leave alone
notLink == <<parameterVars, workers, estimation, solve, utilityVars>>
\* what the workers leave alone
notWorkers == <<parameterVars, estimation, solve, utilityVars, lightTimeCalculator_,
                positionPartialList_, lighTimeCorrectionPartialsFunctions_,
                linkEndTimes, linkEndStates, lastUpdate, ret>>
\* what a light-time solve leaves alone
notSolve == <<linkVars, parameterVars, workers, estimation, utilityVars>>
\* what the Estimation Manager leaves alone
notEstimation == <<linkVars, parameterVars, workers, solve, utilityVars>>
\* what computing a numerical partial leaves alone
notParameters == <<linkVars, workers, estimation, solve, utilityVars>>
\* the link, the parameters, the workers, the Estimation Manager and the solve
observationVars == <<linkVars, parameterVars, workers, estimation, solve>>

\* the sum of the correction terms under the current parameter values
currentCorrection == CorrectionSum(lightTimeCalculator_, gravitationalParameter)

Times == 0..MaxTime

(***************************************************************************)
(* OneWayRangeObservationModel.                                            *)
(***************************************************************************)
\* the observable of a light-time solution, or its failure
IdealObservation(lt) ==
    IF lt.status = "ok"
    THEN [status |-> "ok", value |-> RMul(lt.lightTime, RInt(SPEED_OF_LIGHT)),
          calculatorInvoked |-> TRUE]
    ELSE [status |-> lt.status, value |-> RZero, calculatorInvoked |-> TRUE]

\* variant: the two anchors are taken for each other
computeIdealObservations_SwappedAnchor(time, linkEndAssociatedWithTime) ==
    IF linkEndAssociatedWithTime \in {receiver, transmitter}
    THEN TheValue({IdealObservation(lt) :
                   lt \in {calculateLightTime(lightTimeCalculator_.ephemeris,
                                              currentCorrection, time,
                                              linkEndAssociatedWithTime = transmitter)}})
    ELSE [status |-> "runtime_error", value |-> RZero,
          calculatorInvoked |-> FALSE]

\* variant: a link end that is not the receiver is taken for the transmitter
computeIdealObservations_NoCheck(time, linkEndAssociatedWithTime) ==
    TheValue({IdealObservation(lt) :
              lt \in {calculateLightTime(lightTimeCalculator_.ephemeris,
                                         currentCorrection, time,
                                         linkEndAssociatedWithTime = receiver)}})

\* computeIdealObservations( time, linkEndAssociatedWithTime )
computeIdealObservations(time, linkEndAssociatedWithTime) ==
    IF linkEndAssociatedWithTime \in {receiver, transmitter}
    THEN LET isTimeAtReception == (linkEndAssociatedWithTime = receiver)
             lt == calculateLightTime(lightTimeCalculator_.ephemeris,
                                      currentCorrection,
                                      time, isTimeAtReception)
         IN  TheValue({IdealObservation(l) : l \in {lt}})
    ELSE [status |-> "runtime_error", value |-> RZero,
          calculatorInvoked |-> FALSE]

\* variant: the receiver's time and state are stored first
setLinkEndData_ReceiverFirst(timesIn, statesIn, transmissionTime, receptionTime, txState, rxState) ==
    [times |-> timesIn \o <<receptionTime, transmissionTime>>,
     states |-> statesIn \o <<rxState, txState>>]

\* "Set link end states and times": the two vectors after the push_backs
setLinkEndData(timesIn, statesIn, transmissionTime, receptionTime, txState, rxState) ==
    [times |-> timesIn \o <<transmissionTime, receptionTime>>,
     states |-> statesIn \o <<txState, rxState>>]

\* variant: the two vectors are cleared before anything else
computeIdealObservationsWithLinkEndData_ClearsVectors(time, linkEndAssociatedWithTime, timesIn, statesIn) ==
    LET unchanged == [times |-> <<>>, states |-> <<>>,
                      receiverState |-> receiverState,
                      transmitterState |-> transmitterState]
        isTimeAtReception == (linkEndAssociatedWithTime = receiver)
        \* what follows the call of the light-time calculator
        Finish(lt) ==
            LET observation == lt.lightTime
                transmissionTime == IF isTimeAtReception
                                    THEN RSub(RInt(time), observation)
                                    ELSE RInt(time)
                receptionTime == IF isTimeAtReception
                                 THEN RInt(time)
                                 ELSE RAdd(RInt(time), observation)
            IN  IF lt.status = "ok"
                THEN [status |-> "ok",
                      value |-> RMul(observation, RInt(SPEED_OF_LIGHT)),
                      calculatorInvoked |-> TRUE,
                      receiverState |-> lt.rx,
                      transmitterState |-> lt.tx]
                     @@ setLinkEndData(<<>>, <<>>, transmissionTime,
                                       receptionTime, lt.tx, lt.rx)
                ELSE [status |-> lt.status, value |-> RZero,
                      calculatorInvoked |-> TRUE] @@ unchanged
    IN
    IF linkEndAssociatedWithTime \in {receiver, transmitter}
    THEN TheValue({Finish(lt) :
                   lt \in {calculateLightTimeWithLinkEndsStates(
                               lightTimeCalculator_.ephemeris,
                               currentCorrection, time,
                               isTimeAtReception)}})
    ELSE [status |-> "runtime_error", value |-> RZero,
          calculatorInvoked |-> FALSE] @@ unchanged

\* computeIdealObservationsWithLinkEndData( time, linkEndAssociatedWithTime,
\* linkEndTimes, linkEndStates ): the returned value, the two vectors and the
\* two pre-declared member states as the call leaves them
computeIdealObservationsWithLinkEndData(time, linkEndAssociatedWithTime, timesIn, statesIn) ==
    LET unchanged == [times |-> timesIn, states |-> statesIn,
                      receiverState |-> receiverState,
                      transmitterState |-> transmitterState]
        isTimeAtReception == (linkEndAssociatedWithTime = receiver)
        \* what follows the call of the light-time calculator
        Finish(lt) ==
            LET observation == lt.lightTime
                transmissionTime == IF isTimeAtReception
                                    THEN RSub(RInt(time), observation)
                                    ELSE RInt(time)
                receptionTime == IF isTimeAtReception
                                 THEN RInt(time)
                                 ELSE RAdd(RInt(time), observation)
            IN  IF lt.status = "ok"
                THEN [status |-> "ok",
                      value |-> RMul(observation, RInt(SPEED_OF_LIGHT)),
                      calculatorInvoked |-> TRUE,
                      receiverState |-> lt.rx,
                      transmitterState |-> lt.tx]
                     @@ setLinkEndData(timesIn, statesIn, transmissionTime,
                                       receptionTime, lt.tx, lt.rx)
                ELSE [status |-> lt.status, value |-> RZero,
                      calculatorInvoked |-> TRUE] @@ unchanged
    IN
    IF linkEndAssociatedWithTime \in {receiver, transmitter}
    THEN TheValue({Finish(lt) :
                   lt \in {calculateLightTimeWithLinkEndsStates(
                               lightTimeCalculator_.ephemeris,
                               currentCorrection, time,
                               isTimeAtReception)}})
    ELSE [status |-> "runtime_error", value |-> RZero,
          calculatorInvoked |-> FALSE] @@ unchanged

(***************************************************************************)
(* OneWayRangeScaling.  linkEndStates[ 0 ] of the code is linkEndStates[1] *)
(* here (the transmitter), linkEndStates[ 1 ] is linkEndStates[2].         *)
(***************************************************************************)
\* 1 / ( 1 - rangeVectorNormalized . velocity / c )
LightTimeCorrectionScaling(rangeVectorNormalized, velocity) ==
    RDiv(ROne,
         RSub(ROne, RDiv(Dot(rangeVectorNormalized, velocity),
                         RInt(SPEED_OF_LIGHT))))

\* variant: the transmitter-reference factor is built on the member the
\* previous call left instead of the value just computed
update_StaleMember(scaling, states, times, fixedLinkEnd) ==
    LET rangeVector == VecSub(Segment(states[2], 0, 3), Segment(states[1], 0, 3))
        rangeVectorNormalized == VecOver(rangeVector, VecNorm(rangeVector))
        rxScaling == LightTimeCorrectionScaling(rangeVectorNormalized,
                                                Segment(states[1], 3, 3))
        txScaling == LightTimeCorrectionScaling(rangeVectorNormalized,
                                                Segment(states[2], 3, 3))
    IN  [receiverReferenceLightTimeCorrectionScaling_ |-> rxScaling,
         receiverReferenceScalingFactor_ |-> Scale(rangeVectorNormalized, rxScaling),
         transmitterReferenceLightTimeCorrectionScaling_ |-> txScaling,
         transmitterReferenceScalingFactor_ |->
             Scale(rangeVectorNormalized,
                   scaling.transmitterReferenceLightTimeCorrectionScaling_)]

\* variant: each reference factor is built on the velocity of its own
\* (fixed) link end
update_SwappedVelocities(scaling, states, times, fixedLinkEnd) ==
    LET rangeVector == VecSub(Segment(states[2], 0, 3), Segment(states[1], 0, 3))
        rangeVectorNormalized == VecOver(rangeVector, VecNorm(rangeVector))
        rxScaling == LightTimeCorrectionScaling(rangeVectorNormalized,
                                                Segment(states[2], 3, 3))
        txScaling == LightTimeCorrectionScaling(rangeVectorNormalized,
                                                Segment(states[1], 3, 3))
    IN  [receiverReferenceLightTimeCorrectionScaling_ |-> rxScaling,
         receiverReferenceScalingFactor_ |-> Scale(rangeVectorNormalized, rxScaling),
         transmitterReferenceLightTimeCorrectionScaling_ |-> txScaling,
         transmitterReferenceScalingFactor_ |-> Scale(rangeVectorNormalized, txScaling)]

\* variant: the range vector is not divided by its norm
update_NotNormalized(scaling, states, times, fixedLinkEnd) ==
    LET rangeVector == VecSub(Segment(states[2], 0, 3), Segment(states[1], 0, 3))
        rangeVectorNormalized == VecOver(rangeVector, 1)
        rxScaling == LightTimeCorrectionScaling(rangeVectorNormalized,
                                                Segment(states[1], 3, 3))
        txScaling == LightTimeCorrectionScaling(rangeVectorNormalized,
                                                Segment(states[2], 3, 3))
    IN  [receiverReferenceLightTimeCorrectionScaling_ |-> rxScaling,
         receiverReferenceScalingFactor_ |-> Scale(rangeVectorNormalized, rxScaling),
         transmitterReferenceLightTimeCorrectionScaling_ |-> txScaling,
         transmitterReferenceScalingFactor_ |-> Scale(rangeVectorNormalized, txScaling)]

\* OneWayRangeScaling::update: the members after the call, given the members
\* before it and the arguments
update(scaling, states, times, fixedLinkEnd) ==
    LET \* the four members, given the normalised range vector and the scalars
        Members(rangeVectorNormalized, rxScaling, txScaling) ==
            [receiverReferenceLightTimeCorrectionScaling_ |-> rxScaling,
             receiverReferenceScalingFactor_ |->
                 Scale(rangeVectorNormalized, rxScaling),
             transmitterReferenceLightTimeCorrectionScaling_ |-> txScaling,
             transmitterReferenceScalingFactor_ |->
                 Scale(rangeVectorNormalized, txScaling)]
        Scalings(rangeVectorNormalized) ==
            TheValue({Members(rangeVectorNormalized, sc[1], sc[2]) :
                         sc \in {<<LightTimeCorrectionScaling(
                                       rangeVectorNormalized,
                                       Segment(states[1], 3, 3)),
                                   LightTimeCorrectionScaling(
                                       rangeVectorNormalized,
                                       Segment(states[2], 3, 3))>>}})
    IN  TheValue({Scalings(rangeVectorNormalized) :
                     rangeVectorNormalized \in
                         {VecOver(rangeVector, VecNorm(rangeVector)) :
                             rangeVector \in {VecSub(Segment(states[2], 0, 3),
                                                     Segment(states[1], 0, 3))}}})

\* variant: the sign is not flipped for the receiver
getScalingFactor_NoSignFlip(linkEndType, referenceTimeLinkEnd) ==
    IF referenceTimeLinkEnd \in {transmitter, receiver}
    THEN [status |-> "ok",
          value |-> IF referenceTimeLinkEnd = transmitter
                    THEN oneWayRangeScaler_.transmitterReferenceScalingFactor_
                    ELSE oneWayRangeScaler_.receiverReferenceScalingFactor_]
    ELSE [status |-> "runtime_error", value |-> <<>>]

\* OneWayRangeScaling::getScalingFactor
getScalingFactor(linkEndType, referenceTimeLinkEnd) ==
    IF referenceTimeLinkEnd \in {transmitter, receiver}
    THEN LET scaling == IF referenceTimeLinkEnd = transmitter
                        THEN oneWayRangeScaler_.transmitterReferenceScalingFactor_
                        ELSE oneWayRangeScaler_.receiverReferenceScalingFactor_
         IN  [status |-> "ok",
              value |-> IF linkEndType = receiver
                        THEN Scale(scaling, RInt(-1))
                        ELSE scaling]
    ELSE [status |-> "runtime_error", value |-> <<>>]

\* variant: a link end that is not the transmitter is taken for the receiver
getLightTimePartialScalingFactor_NoThrow(referenceTimeLinkEnd) ==
    IF referenceTimeLinkEnd = transmitter
    THEN [status |-> "ok",
          value |-> oneWayRangeScaler_.transmitterReferenceLightTimeCorrectionScaling_]
    ELSE [status |-> "ok",
          value |-> oneWayRangeScaler_.receiverReferenceLightTimeCorrectionScaling_]

\* OneWayRangeScaling::getLightTimePartialScalingFactor
getLightTimePartialScalingFactor(referenceTimeLinkEnd) ==
    IF referenceTimeLinkEnd = transmitter
    THEN [status |-> "ok",
          value |-> oneWayRangeScaler_.transmitterReferenceLightTimeCorrectionScaling_]
    ELSE IF referenceTimeLinkEnd = receiver
    THEN [status |-> "ok",
          value |-> oneWayRangeScaler_.receiverReferenceLightTimeCorrectionScaling_]
    ELSE [status |-> "runtime_error", value |-> <<>>]

(***************************************************************************)
(* The function objects OneWayRangePartial holds.  A parameter of size     *)
(* ParameterSize is estimated; the position partial of a link end is a     *)
(* 3 x ParameterSize matrix that depends on the state and time it is       *)
(* evaluated at, a light-time-correction partial is a 1 x ParameterSize    *)
(* matrix that depends on both states and both times, with the midpoint of *)
(* the leg as its time.                                                    *)
(***************************************************************************)
ParameterSize == 2

\* PositionPartial::calculatePartial( state, time ) of link end le
PositionPartialCalculate(le, state, time) ==
    [k \in 1..3 |->
        [j \in 1..ParameterSize |->
            IF j = 1
            THEN RInt(state[k] + (IF le = transmitter THEN 1 ELSE 2))
            ELSE RAdd(RInt(state[3 + k]), RMul(RInt(j), time))]]

\* the i-th light-time-correction partial function, on the state and time lists
LightTimeCorrectionPartialFunction(i, states, times) ==
    [first |-> [j \in 1..ParameterSize |->
                   IF j = 1
                   THEN RInt(i * (states[1][1] + states[2][3] + states[2][4] + 1))
                   ELSE RMul(RInt(i + j), RSub(times[2], times[1]))],
     second |-> RDiv(RAdd(times[1], times[2]), RInt(2))]

(***************************************************************************)
(* OneWayRangePartial::calculatePartial.                                   *)
(***************************************************************************)
\* variant: every position partial is evaluated at the transmitter
PositionPartialEntry_AlwaysTransmitter(i, states, times, linkEndOfFixedTime) ==
    LET le == positionPartialList_[i]
    IN  [first |-> RowTimes(getScalingFactor(le, linkEndOfFixedTime).value,
                            PositionPartialCalculate(le, states[1], times[1])),
         second |-> times[1]]

\* the entry of the first loop for the i-th position partial
PositionPartialEntry(i, states, times, linkEndOfFixedTime) ==
    LET le == positionPartialList_[i]
        currentState == IF le = transmitter THEN states[1] ELSE states[2]
        currentTime == IF le = transmitter THEN times[1] ELSE times[2]
    IN  [first |-> RowTimes(getScalingFactor(le, linkEndOfFixedTime).value,
                            PositionPartialCalculate(le, currentState, currentTime)),
         second |-> currentTime]

\* variant: the factor -1.0 is missing
LightTimeCorrectionEntry_NoSign(i, states, times, linkEndOfFixedTime) ==
    LET p == LightTimeCorrectionPartialFunction(
                 lighTimeCorrectionPartialsFunctions_[i], states, times)
    IN  [first |-> Scale(p.first,
                         RMul(RInt(SPEED_OF_LIGHT),
                              getLightTimePartialScalingFactor(linkEndOfFixedTime).value)),
         second |-> p.second]

\* variant: the entry is given the reception time
LightTimeCorrectionEntry_ReceptionTime(i, states, times, linkEndOfFixedTime) ==
    LET p == LightTimeCorrectionPartialFunction(
                 lighTimeCorrectionPartialsFunctions_[i], states, times)
    IN  [first |-> Scale(p.first,
                         RMul(RMul(RInt(-1), RInt(SPEED_OF_LIGHT)),
                              getLightTimePartialScalingFactor(linkEndOfFixedTime).value)),
         second |-> times[2]]

\* the entry of the second loop for the i-th light-time-correction partial
LightTimeCorrectionEntry(i, states, times, linkEndOfFixedTime) ==
    LET p == LightTimeCorrectionPartialFunction(
                 lighTimeCorrectionPartialsFunctions_[i], states, times)
    IN  [first |-> Scale(p.first,
                         RMul(RMul(RInt(-1), RInt(SPEED_OF_LIGHT)),
                              getLightTimePartialScalingFactor(linkEndOfFixedTime).value)),
         second |-> p.second]

calculatePartial(states, times, linkEndOfFixedTime) ==
    LET nPos == Len(positionPartialList_)
        nLt == Len(lighTimeCorrectionPartialsFunctions_)
    IN  IF \/ nPos > 0 /\ getScalingFactor(positionPartialList_[1],
                                           linkEndOfFixedTime).status # "ok"
           \/ nLt > 0 /\ getLightTimePartialScalingFactor(linkEndOfFixedTime).status # "ok"
        THEN [status |-> "runtime_error", partial |-> <<>>]
        ELSE [status |-> "ok",
              partial |->
                  [i \in 1..nPos |->
                      PositionPartialEntry(i, states, times, linkEndOfFixedTime)]
                  \o
                  [i \in 1..nLt |->
                      LightTimeCorrectionEntry(i, states, times, linkEndOfFixedTime)]]

(***************************************************************************)
(* Initial state: the objects after construction.                          *)
(***************************************************************************)
\* the members of a OneWayRangeScaling before the first update hold
\* whatever the memory held
UninitialisedScaling(g) ==
    [receiverReferenceLightTimeCorrectionScaling_ |-> g,
     receiverReferenceScalingFactor_ |-> <<g, RNeg(g), g>>,
     transmitterReferenceLightTimeCorrectionScaling_ |-> RAdd(g, ROne),
     transmitterReferenceScalingFactor_ |-> <<g, g, RAdd(g, ROne)>>]

UninitialisedScalings == {UninitialisedScaling(g) : g \in {RZero, Rat(7, 3)}}

\* the links the objects are constructed for: the light-time calculator of
\* the observation model (an ephemeris and the sum of the correction terms of
\* the leg, in seconds), what the OneWayRangePartial holds (the link ends
\* that have a position partial, in the order of the map, and the attached
\* light-time-correction partial functions) and what the memory of the
\* OneWayRangeScaling holds when it is constructed
Links ==
    { [calculator |-> [ephemeris |-> Ephemerides[1], delay |-> RZero,
                       perturbingBodies |-> <<>>],
       positionPartialList |-> <<>>, functions |-> <<>>,
       scaling |-> UninitialisedScaling(RZero)],
      [calculator |-> [ephemeris |-> Ephemerides[2],
                       delay |-> Rat(1, SPEED_OF_LIGHT),
                       perturbingBodies |-> <<>>],
       positionPartialList |-> <<transmitter, receiver>>, functions |-> <<1, 2>>,
       scaling |-> UninitialisedScaling(Rat(7, 3))],
      [calculator |-> [ephemeris |-> Ephemerides[3], delay |-> RZero,
                       perturbingBodies |-> <<>>],
       positionPartialList |-> <<receiver>>, functions |-> <<2>>,
       scaling |-> UninitialisedScaling(RZero)],
      [calculator |-> [ephemeris |-> Ephemerides[4],
                       delay |-> Rat(2, SPEED_OF_LIGHT),
                       perturbingBodies |-> <<>>],
       positionPartialList |-> <<transmitter>>, functions |-> <<>>,
       scaling |-> UninitialisedScaling(Rat(7, 3))] }

\* no central-difference partial is being computed
NoNumericalPartial ==
    [pc |-> "idle", parameter |-> "Sun", time |-> 0, linkEnd |-> transmitter,
     up |-> RZero, down |-> RZero, result |-> RZero]

\* no worker has been started
NoWorkers == <<>>

\* no estimation has been set up
NoEstimation == [phase |-> "none"]

\* no light-time solve is in progress
NoSolve == [status |-> "none"]

\* no interpolator has been constructed
NoInterpolator == [status |-> "none"]

\* no coefficient set has been asked for
NoCoefficients == [status |-> "none"]

\* no rotational state is being converted or processed
NoRotation == [status |-> "none"]

\* no mass-rate partial has been constructed
NoMassRate == [status |-> "none"]

\* the objects of the utilities are not in use
NoUtilities ==
    /\ interpolator = NoInterpolator
    /\ coefficients = NoCoefficients
    /\ rotation = NoRotation
    /\ massRate = NoMassRate

\* the record of a call, with the fields a call does not use
NoCall ==
    [op |-> "none", time |-> 0, linkEnd |-> transmitter, linkEndType |-> transmitter,
     status |-> "ok", value |-> <<>>, calculatorInvoked |-> FALSE,
     entryLength |-> 0, times |-> <<>>, states |-> <<>>, partial |-> <<>>]

Init ==
    /\ NoUtilities
    /\ \E link \in Links :
           /\ lightTimeCalculator_ = link.calculator
           /\ positionPartialList_ = link.positionPartialList
           /\ lighTimeCorrectionPartialsFunctions_ = link.functions
           /\ oneWayRangeScaler_ = link.scaling
    /\ receiverState = <<0, 0, 0, 0, 0, 0>>
    /\ transmitterState = <<0, 0, 0, 0, 0, 0>>
    /\ linkEndTimes = <<>>
    /\ linkEndStates = <<>>
    /\ lastUpdate = [calls |-> 0, states |-> <<>>]
    /\ ret = NoCall
    /\ gravitationalParameter = NominalGravitationalParameter
    /\ numericalPartial = NoNumericalPartial
    /\ workers = NoWorkers
    /\ estimation = NoEstimation
    /\ solve = NoSolve

(***************************************************************************)
(* Actions: one per call.                                                  *)
(***************************************************************************)
ComputeIdealObservations(time, le) ==
    /\ ret.op = "none"
    /\ \E r \in {computeIdealObservations(time, le)} :
        /\ ret' = [NoCall EXCEPT !.op = "computeIdealObservations",
                                 !.time = time, !.linkEnd = le,
                                 !.status = r.status, !.value = r.value,
                                 !.calculatorInvoked = r.calculatorInvoked]
        /\ UNCHANGED <<notLink, lightTimeCalculator_, receiverState, transmitterState,
                       linkEndTimes, linkEndStates, oneWayRangeScaler_,
                       positionPartialList_, lighTimeCorrectionPartialsFunctions_,
                       lastUpdate>>

\* the call on the caller's two vectors as they are
CallWithLinkEndData(time, le) ==
    \E r \in {computeIdealObservationsWithLinkEndData(time, le, linkEndTimes,
                                                     linkEndStates)} :
        /\ linkEndTimes' = r.times
        /\ linkEndStates' = r.states
        /\ receiverState' = r.receiverState
        /\ transmitterState' = r.transmitterState
        /\ ret' = [NoCall EXCEPT !.op = "computeIdealObservationsWithLinkEndData",
                                 !.time = time, !.linkEnd = le,
                                 !.status = r.status, !.value = r.value,
                                 !.calculatorInvoked = r.calculatorInvoked,
                                 !.entryLength = Len(linkEndTimes),
                                 !.times = r.times, !.states = r.states]
        /\ UNCHANGED <<notLink, lightTimeCalculator_, oneWayRangeScaler_,
                       positionPartialList_, lighTimeCorrectionPartialsFunctions_,
                       lastUpdate>>

ComputeIdealObservationsWithLinkEndData(time, le) ==
    /\ ret.op = "none"
    /\ Len(linkEndTimes) < 2 * MaxObservations
    /\ CallWithLinkEndData(time, le)

\* the caller declares fresh, empty vectors for the next observation
NewLinkEndVectors ==
    /\ ret.op = "none"
    /\ Len(linkEndTimes) > 0
    /\ linkEndTimes' = <<>>
    /\ linkEndStates' = <<>>
    /\ ret' = [NoCall EXCEPT !.op = "newLinkEndVectors"]
    /\ UNCHANGED <<notLink, lightTimeCalculator_, receiverState, transmitterState,
                   oneWayRangeScaler_, positionPartialList_,
                   lighTimeCorrectionPartialsFunctions_, lastUpdate>>

\* the caller passes the vectors an observation filled
Update(fixedLinkEnd) ==
    /\ ret.op = "none"
    /\ Len(linkEndStates) >= 2
    /\ oneWayRangeScaler_' = update(oneWayRangeScaler_, linkEndStates,
                                    linkEndTimes, fixedLinkEnd)
    /\ lastUpdate' = [calls |-> IF lastUpdate.calls < 2
                                 THEN lastUpdate.calls + 1 ELSE 2,
                       states |-> linkEndStates]
    /\ ret' = [NoCall EXCEPT !.op = "update", !.linkEnd = fixedLinkEnd]
    /\ UNCHANGED <<notLink, lightTimeCalculator_, receiverState, transmitterState,
                   linkEndTimes, linkEndStates, positionPartialList_,
                   lighTimeCorrectionPartialsFunctions_>>

GetScalingFactor(linkEndType, referenceTimeLinkEnd) ==
    /\ ret.op = "none"
    /\ \E r \in {getScalingFactor(linkEndType, referenceTimeLinkEnd)} :
        /\ ret' = [NoCall EXCEPT !.op = "getScalingFactor",
                                 !.linkEndType = linkEndType,
                                 !.linkEnd = referenceTimeLinkEnd,
                                 !.status = r.status, !.value = r.value]
        /\ UNCHANGED <<notLink, lightTimeCalculator_, receiverState, transmitterState,
                       linkEndTimes, linkEndStates, oneWayRangeScaler_,
                       positionPartialList_, lighTimeCorrectionPartialsFunctions_,
                       lastUpdate>>

GetLightTimePartialScalingFactor(referenceTimeLinkEnd) ==
    /\ ret.op = "none"
    /\ \E r \in {getLightTimePartialScalingFactor(referenceTimeLinkEnd)} :
        /\ ret' = [NoCall EXCEPT !.op = "getLightTimePartialScalingFactor",
                                 !.linkEnd = referenceTimeLinkEnd,
                                 !.status = r.status, !.value = r.value]
        /\ UNCHANGED <<notLink, lightTimeCalculator_, receiverState, transmitterState,
                       linkEndTimes, linkEndStates, oneWayRangeScaler_,
                       positionPartialList_, lighTimeCorrectionPartialsFunctions_,
                       lastUpdate>>

CalculatePartial(linkEndOfFixedTime) ==
    /\ ret.op = "none"
    /\ Len(linkEndStates) >= 2
    /\ \E r \in {calculatePartial(linkEndStates, linkEndTimes, linkEndOfFixedTime)} :
        /\ ret' = [NoCall EXCEPT !.op = "calculatePartial",
                                 !.linkEnd = linkEndOfFixedTime,
                                 !.status = r.status, !.partial = r.partial]
        /\ UNCHANGED <<notLink, lightTimeCalculator_, receiverState, transmitterState,
                       linkEndTimes, linkEndStates, oneWayRangeScaler_,
                       positionPartialList_, lighTimeCorrectionPartialsFunctions_,
                       lastUpdate>>

\* the call has returned and the caller has taken its result: the calls of
\* the one caller follow each other
CallReturned ==
    /\ ret.op # "none"
    /\ ret' = NoCall
    /\ UNCHANGED <<notLink, lightTimeCalculator_, receiverState, transmitterState,
                   linkEndTimes, linkEndStates, oneWayRangeScaler_,
                   positionPartialList_, lighTimeCorrectionPartialsFunctions_,
                   lastUpdate>>

Next ==
    \/ CallReturned
    \/ \E time \in Times, le \in LinkEndType : ComputeIdealObservations(time, le)
    \/ \E time \in Times, le \in LinkEndType :
           ComputeIdealObservationsWithLinkEndData(time, le)
    \/ NewLinkEndVectors
    \/ \E le \in LinkEndType : Update(le)
    \/ \E le, ref \in LinkEndType : GetScalingFactor(le, ref)
    \/ \E ref \in LinkEndType : GetLightTimePartialScalingFactor(ref)
    \/ \E le \in LinkEndType : CalculatePartial(le)

Spec == Init /\ [][Next]_vars

(***************************************************************************)
(* Central-difference partial of the observable with respect to the        *)
(* gravitational parameter of a body: the parameter is set to its value    *)
(* plus the perturbation and the observable is computed, then to its value *)
(* minus the perturbation and the observable is computed again, then it is *)
(* reset and the difference is divided by twice the perturbation.          *)
(***************************************************************************)
ParameterPerturbation == 1

\* the light-time calculators of the links whose range is differentiated
ParameterLinks ==
    { [ephemeris |-> Ephemerides[1], delay |-> RZero, perturbingBodies |-> <<"Sun">>],
      [ephemeris |-> Ephemerides[2], delay |-> RZero,
       perturbingBodies |-> <<"Earth", "Sun">>],
      [ephemeris |-> Ephemerides[3], delay |-> Rat(1, SPEED_OF_LIGHT),
       perturbingBodies |-> <<"Earth", "Sun">>],
      [ephemeris |-> Ephemerides[4], delay |-> RZero, perturbingBodies |-> <<>>] }

InitParameters ==
    /\ NoUtilities
    /\ lightTimeCalculator_ \in ParameterLinks
    /\ positionPartialList_ = <<>>
    /\ lighTimeCorrectionPartialsFunctions_ = <<>>
    /\ oneWayRangeScaler_ = UninitialisedScaling(RZero)
    /\ receiverState = <<0, 0, 0, 0, 0, 0>>
    /\ transmitterState = <<0, 0, 0, 0, 0, 0>>
    /\ linkEndTimes = <<>>
    /\ linkEndStates = <<>>
    /\ lastUpdate = [calls |-> 0, states |-> <<>>]
    /\ ret = NoCall
    /\ gravitationalParameter = NominalGravitationalParameter
    /\ numericalPartial = NoNumericalPartial
    /\ workers = NoWorkers
    /\ estimation = NoEstimation
    /\ solve = NoSolve

\* parameter->setParameterValue( unperturbed + perturbation )
PerturbUp(body, time, le) ==
    /\ numericalPartial.pc = "idle"
    /\ gravitationalParameter' =
           [gravitationalParameter EXCEPT ![body] = @ + ParameterPerturbation]
    /\ numericalPartial' = [NoNumericalPartial EXCEPT !.pc = "perturbedUp",
                                                      !.parameter = body,
                                                      !.time = time,
                                                      !.linkEnd = le]
    /\ UNCHANGED notParameters

\* the observable with the parameter perturbed upwards
ObserveUp ==
    /\ numericalPartial.pc = "perturbedUp"
    /\ \E r \in {computeIdealObservations(numericalPartial.time,
                                          numericalPartial.linkEnd)} :
           numericalPartial' =
               IF r.status = "ok"
               THEN [numericalPartial EXCEPT !.pc = "observedUp", !.up = r.value]
               ELSE [numericalPartial EXCEPT !.pc = "failedUp"]
    /\ UNCHANGED <<notParameters, gravitationalParameter>>

\* parameter->setParameterValue( unperturbed - perturbation )
PerturbDown ==
    /\ numericalPartial.pc = "observedUp"
    /\ gravitationalParameter' =
           [gravitationalParameter EXCEPT
               ![numericalPartial.parameter] = @ - 2 * ParameterPerturbation]
    /\ numericalPartial' = [numericalPartial EXCEPT !.pc = "perturbedDown"]
    /\ UNCHANGED notParameters

\* the observable with the parameter perturbed downwards
ObserveDown ==
    /\ numericalPartial.pc = "perturbedDown"
    /\ \E r \in {computeIdealObservations(numericalPartial.time,
                                          numericalPartial.linkEnd)} :
           numericalPartial' =
               IF r.status = "ok"
               THEN [numericalPartial EXCEPT !.pc = "observedDown", !.down = r.value]
               ELSE [numericalPartial EXCEPT !.pc = "failedDown"]
    /\ UNCHANGED <<notParameters, gravitationalParameter>>

\* the parameter is reset and the central difference is returned
ResetParameter ==
    /\ numericalPartial.pc = "observedDown"
    /\ gravitationalParameter' =
           [gravitationalParameter EXCEPT
               ![numericalPartial.parameter] = @ + ParameterPerturbation]
    /\ numericalPartial' =
           [numericalPartial EXCEPT
               !.pc = "done",
               !.result = RDiv(RSub(numericalPartial.up, numericalPartial.down),
                               RInt(2 * ParameterPerturbation))]
    /\ UNCHANGED notParameters

\* the caller goes on to the next parameter
NextParameter ==
    /\ numericalPartial.pc = "done"
    /\ numericalPartial' = NoNumericalPartial
    /\ UNCHANGED <<notParameters, gravitationalParameter>>

NextParameters ==
    \/ \E body \in Bodies, time \in Times, le \in LinkEndType :
           PerturbUp(body, time, le)
    \/ ObserveUp
    \/ PerturbDown
    \/ ObserveDown
    \/ ResetParameter
    \/ NextParameter

SpecParameters == InitParameters /\ [][NextParameters]_vars

(***************************************************************************)
(* Two workers evaluate one observation epoch each on the same             *)
(* observation model, scaling object and partial object.  Each worker has  *)
(* its own vectors of link-end times and states and makes the calls of a   *)
(* caller in their order; the calls of the two workers interleave.  The    *)
(* call of computeIdealObservationsWithLinkEndData is two steps: the       *)
(* light-time calculator writes the two pre-declared member states of the  *)
(* model, and then the vectors are filled from these members.              *)
(***************************************************************************)
Workers == {1, 2}

InitWorkers ==
    /\ NoUtilities
    /\ \E link \in Links :
           /\ lightTimeCalculator_ = link.calculator
           /\ positionPartialList_ = link.positionPartialList
           /\ lighTimeCorrectionPartialsFunctions_ = link.functions
           /\ oneWayRangeScaler_ = link.scaling
    /\ receiverState = <<0, 0, 0, 0, 0, 0>>
    /\ transmitterState = <<0, 0, 0, 0, 0, 0>>
    /\ linkEndTimes = <<>>
    /\ linkEndStates = <<>>
    /\ lastUpdate = [calls |-> 0, states |-> <<>>]
    /\ ret = NoCall
    /\ gravitationalParameter = NominalGravitationalParameter
    /\ numericalPartial = NoNumericalPartial
    /\ \E epoch \in [Workers -> Times], le \in [Workers -> {transmitter, receiver}] :
           /\ epoch[1] # epoch[2]
           /\ workers = [w \in Workers |->
                             [pc |-> "start", time |-> epoch[w], linkEnd |-> le[w],
                              observation |-> RZero, times |-> <<>>,
                              states |-> <<>>, partial |-> <<>>]]
    /\ estimation = NoEstimation
    /\ solve = NoSolve

\* lightTimeCalculator_->calculateLightTimeWithLinkEndsStates( receiverState,
\* transmitterState, time, flag ): the member states are written
WorkerSolve(w) ==
    /\ workers[w].pc = "start"
    /\ \E lt \in {calculateLightTimeWithLinkEndsStates(
                       lightTimeCalculator_.ephemeris, currentCorrection,
                       workers[w].time, workers[w].linkEnd = receiver)} :
           IF lt.status = "ok"
           THEN /\ receiverState' = lt.rx
                /\ transmitterState' = lt.tx
                /\ workers' = [workers EXCEPT ![w].pc = "solved",
                                              ![w].observation = lt.lightTime]
           ELSE /\ workers' = [workers EXCEPT ![w].pc = "failed"]
                /\ UNCHANGED <<receiverState, transmitterState>>
    /\ UNCHANGED <<notWorkers, oneWayRangeScaler_>>

\* the rest of computeIdealObservationsWithLinkEndData: the times are set and
\* the worker's vectors are filled from the member states
WorkerSetLinkEndData(w) ==
    /\ workers[w].pc = "solved"
    /\ \E d \in {setLinkEndData(
                      <<>>, <<>>,
                      IF workers[w].linkEnd = receiver
                      THEN RSub(RInt(workers[w].time), workers[w].observation)
                      ELSE RInt(workers[w].time),
                      IF workers[w].linkEnd = receiver
                      THEN RInt(workers[w].time)
                      ELSE RAdd(RInt(workers[w].time), workers[w].observation),
                      transmitterState, receiverState)} :
           workers' = [workers EXCEPT
                          ![w].pc = "observed",
                          ![w].observation = RMul(workers[w].observation,
                                                  RInt(SPEED_OF_LIGHT)),
                          ![w].times = d.times,
                          ![w].states = d.states]
    /\ UNCHANGED <<notWorkers, receiverState, transmitterState, oneWayRangeScaler_>>

\* positionPartialScaler->update( states, times, linkEnd ) with the worker's vectors
WorkerUpdate(w) ==
    /\ workers[w].pc = "observed"
    /\ oneWayRangeScaler_' = update(oneWayRangeScaler_, workers[w].states,
                                    workers[w].times, workers[w].linkEnd)
    /\ workers' = [workers EXCEPT ![w].pc = "updated"]
    /\ UNCHANGED <<notWorkers, receiverState, transmitterState>>

\* calculatePartial( states, times, linkEnd ) with the worker's vectors
WorkerCalculatePartial(w) ==
    /\ workers[w].pc = "updated"
    /\ \E r \in {calculatePartial(workers[w].states, workers[w].times,
                                    workers[w].linkEnd)} :
           workers' = [workers EXCEPT ![w].pc = "done", ![w].partial = r.partial]
    /\ UNCHANGED <<notWorkers, receiverState, transmitterState, oneWayRangeScaler_>>

NextWorkers ==
    \E w \in Workers :
        \/ WorkerSolve(w)
        \/ WorkerSetLinkEndData(w)
        \/ WorkerUpdate(w)
        \/ WorkerCalculatePartial(w)

SpecWorkers == InitWorkers /\ [][NextWorkers]_vars

(***************************************************************************)
(* Estimation Manager.  One parameter is estimated; its value is an        *)
(* integer.  The propagator, the observation models, the partials and the  *)
(* linear solver are collaborators: what an observation epoch yields       *)
(* (an observable, or one of the failures of the error taxonomy), whether  *)
(* the normal-equations matrix is singular and which correction the solve  *)
(* gives are inputs of the steps.  The convergence metric is the parameter *)
(* change, and it is below tolerance when the correction is zero.          *)
(***************************************************************************)
\* the fixed maximum number of iterations
MaxEstimationIterations == 2
\* observation epochs of the observation collection
NumberOfEpochs == 2

Epochs == 1..NumberOfEpochs
Phases == {"Initialize", "Propagate&Simulate", "Linearize", "Solve",
           "Converged", "Iterate"}
\* failures of one epoch that leave the batch running
EpochFailures == {"NonConvergence", "InvalidGeometry"}
\* failures of the set-up
RoleMismatches == {"InvalidLinkEndRole", "IncompatibleLinkEnd"}
ParameterCorrections == {0, 1}

NoOutput == [condition |-> "none", parameters |-> 0, valid |-> <<>>]

\* the Estimation Manager after Initialize, with the initial parameter value p
InitialEstimation(p) ==
    [phase |-> "Initialize", iteration |-> 0, finished |-> FALSE,
     parameters |-> p, iterationStart |-> p,
     propagations |-> 0, propagatedWith |-> p,
     outcome |-> [e \in Epochs |-> "pending"],
     valid |-> [e \in Epochs |-> TRUE],
     computedWith |-> [e \in Epochs |-> p],
     assembled |-> {}, residualsWith |-> [e \in Epochs |-> p],
     singular |-> FALSE, output |-> NoOutput]

InitEstimation ==
    /\ NoUtilities
    /\ lightTimeCalculator_ = [ephemeris |-> Ephemerides[1], delay |-> RZero,
                               perturbingBodies |-> <<>>]
    /\ positionPartialList_ = <<>>
    /\ lighTimeCorrectionPartialsFunctions_ = <<>>
    /\ oneWayRangeScaler_ = UninitialisedScaling(RZero)
    /\ receiverState = <<0, 0, 0, 0, 0, 0>>
    /\ transmitterState = <<0, 0, 0, 0, 0, 0>>
    /\ linkEndTimes = <<>>
    /\ linkEndStates = <<>>
    /\ lastUpdate = [calls |-> 0, states |-> <<>>]
    /\ ret = NoCall
    /\ gravitationalParameter = NominalGravitationalParameter
    /\ numericalPartial = NoNumericalPartial
    /\ workers = NoWorkers
    /\ \E p \in {0, 1} : estimation = InitialEstimation(p)
    /\ solve = NoSolve

\* what the caller is handed when the run ends with `condition`
EstimationOutput(e, condition) ==
    [condition |-> condition, parameters |-> e.parameters, valid |-> e.valid]

\* the first epoch of the batch that has not been simulated
FirstPending(e) ==
    CHOOSE k \in Epochs :
        /\ e.outcome[k] = "pending"
        /\ \A j \in 1..(k - 1) : e.outcome[j] # "pending"

\* the valid epochs whose rows are not in the normal equations yet
ToLinearize(e) == {k \in Epochs : e.valid[k] /\ k \notin e.assembled}

\* variant: an iteration starts at Linearize, with the previous state history
beginIteration_SkipPropagation(e) ==
    [e EXCEPT !.phase = "Linearize", !.iteration = e.iteration + 1,
              !.iterationStart = e.parameters,
              !.assembled = {}]

\* an iteration starts: Propagate&Simulate with the current parameter values
beginIteration(e) ==
    [e EXCEPT !.phase = "Propagate&Simulate", !.iteration = e.iteration + 1,
              !.iterationStart = e.parameters,
              !.propagations = 0,
              !.outcome = [k \in Epochs |-> "pending"],
              !.valid = [k \in Epochs |-> TRUE],
              !.assembled = {}]

\* the propagator is invoked with the current parameter values
propagate(e) ==
    [e EXCEPT !.propagations = e.propagations + 1,
              !.propagatedWith = e.parameters]

\* variant: a failure of one epoch ends the batch
simulateEpoch_FailureAborts(e, k, outcome) ==
    IF outcome = "ok"
    THEN [e EXCEPT !.outcome[k] = outcome, !.computedWith[k] = e.parameters]
    ELSE [e EXCEPT !.outcome[k] = outcome, !.valid[k] = FALSE,
                   !.finished = TRUE,
                   !.output = EstimationOutput([e EXCEPT !.valid[k] = FALSE],
                                               outcome)]

\* the computed observable of epoch k: it is computed with the current
\* parameter values, or the epoch is marked invalid, or the run is aborted
simulateEpoch(e, k, outcome) ==
    IF outcome = "ok"
    THEN [e EXCEPT !.outcome[k] = outcome, !.computedWith[k] = e.parameters]
    ELSE IF outcome \in EpochFailures
    THEN [e EXCEPT !.outcome[k] = outcome, !.valid[k] = FALSE]
    ELSE [e EXCEPT !.outcome[k] = outcome, !.valid[k] = FALSE,
                   !.finished = TRUE,
                   !.output = EstimationOutput([e EXCEPT !.valid[k] = FALSE],
                                               outcome)]

\* variant: the rows of an epoch are formed after a correction for that
\* epoch has been applied to the parameter
linearizeEpoch_PrematureUpdate(e, k, outcome) ==
    IF outcome = "ok"
    THEN [e EXCEPT !.assembled = e.assembled \cup {k},
                   !.parameters = e.parameters + 1,
                   !.residualsWith[k] = e.parameters + 1]
    ELSE [e EXCEPT !.outcome[k] = outcome, !.valid[k] = FALSE,
                   !.finished = TRUE,
                   !.output = EstimationOutput([e EXCEPT !.valid[k] = FALSE],
                                               outcome)]

\* the partials and the residual of the valid epoch k: its rows are added
\* to the normal equations, or the run is aborted
linearizeEpoch(e, k, outcome) ==
    IF outcome = "ok"
    THEN [e EXCEPT !.assembled = e.assembled \cup {k},
                   !.residualsWith[k] = e.parameters]
    ELSE [e EXCEPT !.outcome[k] = outcome, !.valid[k] = FALSE,
                   !.finished = TRUE,
                   !.output = EstimationOutput([e EXCEPT !.valid[k] = FALSE],
                                               outcome)]

\* variant: the iteration count is not compared with the maximum
solveNormalEquations_NoMaximum(e, singular, correction) ==
    IF singular
    THEN [e EXCEPT !.singular = TRUE, !.finished = TRUE,
                   !.output = EstimationOutput(e, "EstimationDegenerate")]
    ELSE IF correction = 0
    THEN [e EXCEPT !.phase = "Converged", !.finished = TRUE,
                   !.output = EstimationOutput(e, "Converged")]
    ELSE IF e.iteration > MaxEstimationIterations
    THEN [e EXCEPT !.parameters = e.parameters + correction,
                   !.finished = TRUE,
                   !.output = EstimationOutput(
                       [e EXCEPT !.parameters = e.parameters + correction],
                       "MaxIterations")]
    ELSE [e EXCEPT !.phase = "Iterate",
                   !.parameters = e.parameters + correction]

\* variant: a singular matrix ends the run with no output
solveNormalEquations_NoOutput(e, singular, correction) ==
    IF singular
    THEN [e EXCEPT !.singular = TRUE, !.finished = TRUE]
    ELSE IF correction = 0
    THEN [e EXCEPT !.phase = "Converged", !.finished = TRUE,
                   !.output = EstimationOutput(e, "Converged")]
    ELSE IF e.iteration >= MaxEstimationIterations
    THEN [e EXCEPT !.parameters = e.parameters + correction,
                   !.finished = TRUE,
                   !.output = EstimationOutput(
                       [e EXCEPT !.parameters = e.parameters + correction],
                       "MaxIterations")]
    ELSE [e EXCEPT !.phase = "Iterate",
                   !.parameters = e.parameters + correction]

\* the weighted normal equations are solved, the correction is applied and
\* the convergence metric is computed
solveNormalEquations(e, singular, correction) ==
    IF singular
    THEN [e EXCEPT !.singular = TRUE, !.finished = TRUE,
                   !.output = EstimationOutput(e, "EstimationDegenerate")]
    ELSE IF correction = 0
    THEN [e EXCEPT !.phase = "Converged", !.finished = TRUE,
                   !.output = EstimationOutput(e, "Converged")]
    ELSE IF e.iteration >= MaxEstimationIterations
    THEN [e EXCEPT !.parameters = e.parameters + correction,
                   !.finished = TRUE,
                   !.output = EstimationOutput(
                       [e EXCEPT !.parameters = e.parameters + correction],
                       "MaxIterations")]
    ELSE [e EXCEPT !.phase = "Iterate",
                   !.parameters = e.parameters + correction]

BeginIteration ==
    /\ estimation.phase \in {"Initialize", "Iterate"}
    /\ ~estimation.finished
    /\ estimation' = beginIteration(estimation)
    /\ UNCHANGED notEstimation

Propagate ==
    /\ estimation.phase = "Propagate&Simulate"
    /\ ~estimation.finished
    /\ estimation.propagations = 0
    /\ estimation' = propagate(estimation)
    /\ UNCHANGED notEstimation

SimulateEpoch(outcome) ==
    /\ estimation.phase = "Propagate&Simulate"
    /\ ~estimation.finished
    /\ estimation.propagations > 0
    /\ \E k \in Epochs : estimation.outcome[k] = "pending"
    /\ estimation' = simulateEpoch(estimation, FirstPending(estimation), outcome)
    /\ UNCHANGED notEstimation

\* every epoch has been simulated
Linearize ==
    /\ estimation.phase = "Propagate&Simulate"
    /\ ~estimation.finished
    /\ estimation.propagations > 0
    /\ \A k \in Epochs : estimation.outcome[k] # "pending"
    /\ estimation' = [estimation EXCEPT !.phase = "Linearize"]
    /\ UNCHANGED notEstimation

LinearizeEpoch(outcome) ==
    /\ estimation.phase = "Linearize"
    /\ ~estimation.finished
    /\ ToLinearize(estimation) # {}
    /\ estimation' = linearizeEpoch(
           estimation,
           CHOOSE k \in ToLinearize(estimation) :
               \A j \in ToLinearize(estimation) : k <= j,
           outcome)
    /\ UNCHANGED notEstimation

\* the rows of every valid epoch are in the normal equations
Solve ==
    /\ estimation.phase = "Linearize"
    /\ ~estimation.finished
    /\ ToLinearize(estimation) = {}
    /\ estimation' = [estimation EXCEPT !.phase = "Solve"]
    /\ UNCHANGED notEstimation

SolveNormalEquations(singular, correction) ==
    /\ estimation.phase = "Solve"
    /\ ~estimation.finished
    /\ estimation.assembled = {} => singular
    /\ estimation' = solveNormalEquations(estimation, singular, correction)
    /\ UNCHANGED notEstimation

NextEstimation ==
    \/ BeginIteration
    \/ Propagate
    \/ \E outcome \in {"ok", "NonConvergence", "InvalidGeometry",
                        "InvalidLinkEndRole"} : SimulateEpoch(outcome)
    \/ Linearize
    \/ \E outcome \in {"ok", "IncompatibleLinkEnd"} : LinearizeEpoch(outcome)
    \/ Solve
    \/ \E singular \in BOOLEAN, correction \in ParameterCorrections :
           SolveNormalEquations(singular, correction)

SpecEstimation == InitEstimation /\ [][NextEstimation]_vars

\* the Estimation Manager is a sequential loop: it takes its next step
SpecEstimationFair == SpecEstimation /\ WF_vars(NextEstimation)

(***************************************************************************)
(* The fixed-point iteration of the Light-Time Calculator, one iteration   *)
(* at a time.  The absolute tolerance is below the smallest difference of  *)
(* two light times of the model, 1/SPEED_OF_LIGHT.                         *)
(***************************************************************************)
LightTimeTolerance == Rat(1, 2 * SPEED_OF_LIGHT)

RAbs(p) == <<Abs(p[1]), p[2]>>

\* sums of correction terms, in seconds; the last two exceed the Euclidean
\* light time of some geometry in absolute value
SolveDelays == {RZero, Rat(1, SPEED_OF_LIGHT), Rat(-1, SPEED_OF_LIGHT),
                RInt(-1), RInt(-2)}

\* a solve that has made its initial guess: the Euclidean light time
\* between the positions of the link ends at the anchor time
initialGuess(e, delay, time, isTimeAtReception) ==
    [status |-> "iterating", ephemeris |-> e, delay |-> delay, time |-> time,
     isTimeAtReception |-> isTimeAtReception, count |-> 0,
     lightTime |->
         Rat(VecNorm(VecSub(Segment(StateAt(e, receiver, RInt(time)), 0, 3),
                            Segment(StateAt(e, transmitter, RInt(time)), 0, 3))),
             SPEED_OF_LIGHT),
     change |-> RZero]

InitLightTime ==
    /\ NoUtilities
    /\ lightTimeCalculator_ = [ephemeris |-> Ephemerides[1], delay |-> RZero,
                               perturbingBodies |-> <<>>]
    /\ positionPartialList_ = <<>>
    /\ lighTimeCorrectionPartialsFunctions_ = <<>>
    /\ oneWayRangeScaler_ = UninitialisedScaling(RZero)
    /\ receiverState = <<0, 0, 0, 0, 0, 0>>
    /\ transmitterState = <<0, 0, 0, 0, 0, 0>>
    /\ linkEndTimes = <<>>
    /\ linkEndStates = <<>>
    /\ lastUpdate = [calls |-> 0, states |-> <<>>]
    /\ ret = NoCall
    /\ gravitationalParameter = NominalGravitationalParameter
    /\ numericalPartial = NoNumericalPartial
    /\ workers = NoWorkers
    /\ estimation = NoEstimation
    /\ \E k \in 1..Len(Ephemerides), delay \in SolveDelays, time \in Times,
          isTimeAtReception \in BOOLEAN :
           solve = initialGuess(Ephemerides[k], delay, time, isTimeAtReception)

\* variant: at the iteration bound the current estimate is returned
lightTimeIteration_ReturnsAtBound(s) ==
    LET Decide(next, change) ==
            IF RLess(change, LightTimeTolerance) \/ s.count >= MaxIterations
            THEN [s EXCEPT !.status = "ok", !.lightTime = next,
                           !.change = change]
            ELSE [s EXCEPT !.lightTime = next, !.change = change,
                           !.count = s.count + 1]
    IN  TheValue({Decide(next, RAbs(RSub(next, s.lightTime))) :
                     next \in {LegLightTime(states.rx, states.tx, s.delay) :
                                  states \in {StatesFor(s.ephemeris, RInt(s.time),
                                                        s.lightTime,
                                                        s.isTimeAtReception)}}})

\* one iteration: the time and state of the link end that is not the
\* anchor, the light time between the two states with the corrections,
\* and the tests for a negative light time, convergence and the bound
lightTimeIteration(s) ==
    LET Decide(next, change) ==
            IF RLess(next, RZero)
            THEN [s EXCEPT !.status = "InvalidGeometry", !.change = change]
            ELSE IF RLess(change, LightTimeTolerance)
            THEN [s EXCEPT !.status = "ok", !.lightTime = next,
                           !.change = change]
            ELSE IF s.count >= MaxIterations
            THEN [s EXCEPT !.status = "NonConvergence", !.change = change]
            ELSE [s EXCEPT !.lightTime = next, !.change = change,
                           !.count = s.count + 1]
    IN  TheValue({Decide(next, RAbs(RSub(next, s.lightTime))) :
                     next \in {LegLightTime(states.rx, states.tx, s.delay) :
                                  states \in {StatesFor(s.ephemeris, RInt(s.time),
                                                        s.lightTime,
                                                        s.isTimeAtReception)}}})

LightTimeIteration ==
    /\ solve.status = "iterating"
    /\ \E r \in {lightTimeIteration(solve)} : solve' = r
    /\ UNCHANGED notSolve

NextLightTime == LightTimeIteration

SpecLightTime == InitLightTime /\ [][NextLightTime]_vars

\* the loop of the solver runs on until it returns or fails
SpecLightTimeFair == SpecLightTime /\ WF_vars(NextLightTime)



(***************************************************************************)
(* A caller that passes the same two vectors to the observation model for  *)
(* successive epochs, without clearing them in between.                    *)
(***************************************************************************)
\* the vectors are passed at most MaxReuse times
MaxReuse == 2

ReuseLinkEndVectors(time, le) ==
    /\ ret.op = "none"
    /\ Len(linkEndTimes) < 2 * MaxReuse
    /\ CallWithLinkEndData(time, le)

NextReuse ==
    \/ CallReturned
    \/ \E time \in Times, le \in LinkEndType : ReuseLinkEndVectors(time, le)

SpecReuse == Init /\ [][NextReuse]_vars
(***************************************************************************)
(* The objects of the observation model, its partials, the estimation and  *)
(* the light-time solve while a specification of the utilities runs.       *)
(***************************************************************************)
NoObservations ==
    /\ lightTimeCalculator_ = [ephemeris |-> Ephemerides[1], delay |-> RZero,
                               perturbingBodies |-> <<>>]
    /\ positionPartialList_ = <<>>
    /\ lighTimeCorrectionPartialsFunctions_ = <<>>
    /\ oneWayRangeScaler_ = UninitialisedScaling(RZero)
    /\ receiverState = <<0, 0, 0, 0, 0, 0>>
    /\ transmitterState = <<0, 0, 0, 0, 0, 0>>
    /\ linkEndTimes = <<>>
    /\ linkEndStates = <<>>
    /\ lastUpdate = [calls |-> 0, states |-> <<>>]
    /\ ret = NoCall
    /\ gravitationalParameter = NominalGravitationalParameter
    /\ numericalPartial = NoNumericalPartial
    /\ workers = NoWorkers
    /\ estimation = NoEstimation
    /\ solve = NoSolve

(***************************************************************************)
(* OneDimensionalInterpolator: the handling of a target value outside the  *)
(* range of the independent values.  dependentVariable and useValue are    *)
(* the caller's variables, passed by reference.                            *)
(***************************************************************************)
\* the largest independent value of a grid
MaxIndependentValue == 3

BoundaryInterpolationType ==
    {"throw_exception_at_boundary", "use_boundary_value",
     "use_boundary_value_with_warning", "extrapolate_at_boundary",
     "extrapolate_at_boundary_with_warning", "use_default_value",
     "use_default_value_with_warning"}

\* independentValues_ and dependentValues_ of the interpolators: sorted
\* grids of one, two and three points
InterpolatorData ==
    { [independentValues_ |-> <<1>>, dependentValues_ |-> <<11>>],
      [independentValues_ |-> <<1, 2>>, dependentValues_ |-> <<12, 13>>],
      [independentValues_ |-> <<0, 1, MaxIndependentValue>>,
       dependentValues_ |-> <<14, 15, 16>>] }

DefaultExtrapolationValues == {0, 7}

\* target values below, on, between and above the grid points
TargetValues == (0 - 1)..(MaxIndependentValue + 1)

\* what the caller's dependentVariable holds before the call
EntryDependentVariables == {0 - 5}

\* variant: the end points of the range count as outside
checkInterpolationBoundary_Inclusive(this, targetIndependentVariableValue) ==
    IF targetIndependentVariableValue <= Head(this.independentValues_)
    THEN 0 - 1
    ELSE IF targetIndependentVariableValue >=
                this.independentValues_[Len(this.independentValues_)]
    THEN 1
    ELSE 0

\* checkInterpolationBoundary: -1 below front( ), 1 above back( ), else 0
checkInterpolationBoundary(this, targetIndependentVariableValue) ==
    IF targetIndependentVariableValue < Head(this.independentValues_)
    THEN 0 - 1
    ELSE IF targetIndependentVariableValue >
                this.independentValues_[Len(this.independentValues_)]
    THEN 1
    ELSE 0

\* checkBoundaryCase( dependentVariable, useValue, target ): the two
\* referenced variables after the call, whether it threw and whether it
\* wrote a warning
checkBoundaryCase(this, dependentVariable, useValue, targetIndependentVariableValue) ==
    LET isAtBoundary ==
            checkInterpolationBoundary(this, targetIndependentVariableValue)
        untouched == [status |-> "ok", dependentVariable |-> dependentVariable,
                      useValue |-> FALSE, warning |-> FALSE]
    IN  IF this.boundaryHandling_ = "extrapolate_at_boundary" \/ isAtBoundary = 0
        THEN untouched
        ELSE IF this.boundaryHandling_ = "throw_exception_at_boundary"
        THEN [untouched EXCEPT !.status = "runtime_error"]
        ELSE IF this.boundaryHandling_ = "extrapolate_at_boundary_with_warning"
        THEN [untouched EXCEPT !.warning = TRUE]
        ELSE IF this.boundaryHandling_ \in {"use_boundary_value",
                                             "use_boundary_value_with_warning"}
        THEN [status |-> "ok",
              dependentVariable |->
                  IF isAtBoundary = 0 - 1
                  THEN Head(this.dependentValues_)
                  ELSE this.dependentValues_[Len(this.dependentValues_)],
              useValue |-> TRUE,
              warning |->
                  (this.boundaryHandling_ = "use_boundary_value_with_warning")]
        ELSE IF this.boundaryHandling_ \in {"use_default_value",
                                             "use_default_value_with_warning"}
        THEN [status |-> "ok",
              dependentVariable |-> this.defaultExtrapolationValue_,
              useValue |-> TRUE,
              warning |->
                  (this.boundaryHandling_ = "use_default_value_with_warning")]
        ELSE [untouched EXCEPT !.status = "runtime_error"]

\* OneDimensionalInterpolator( boundaryHandling, defaultExtrapolationValue ),
\* with the grid a derived class has set
InitInterpolator ==
    /\ NoObservations
    /\ coefficients = NoCoefficients
    /\ rotation = NoRotation
    /\ massRate = NoMassRate
    /\ \E data \in InterpolatorData, boundaryHandling \in BoundaryInterpolationType,
          defaultExtrapolationValue \in DefaultExtrapolationValues :
           interpolator =
               [status |-> "constructed",
                independentValues_ |-> data.independentValues_,
                dependentValues_ |-> data.dependentValues_,
                boundaryHandling_ |-> boundaryHandling,
                defaultExtrapolationValue_ |-> defaultExtrapolationValue,
                target |-> 0,
                entry |-> [dependentVariable |-> 0, useValue |-> FALSE],
                dependentVariable |-> 0, useValue |-> FALSE, warning |-> FALSE]

CheckBoundaryCase(dependentVariable, useValue, target) ==
    /\ interpolator.status # "none"
    /\ \E r \in {checkBoundaryCase(interpolator, dependentVariable, useValue,
                                   target)} :
           interpolator' =
               [interpolator EXCEPT
                    !.status = r.status, !.target = target,
                    !.entry = [dependentVariable |-> dependentVariable,
                               useValue |-> useValue],
                    !.dependentVariable = r.dependentVariable,
                    !.useValue = r.useValue, !.warning = r.warning]
    /\ UNCHANGED <<observationVars, coefficients, rotation, massRate>>

NextInterpolator ==
    \E dependentVariable \in EntryDependentVariables, useValue \in BOOLEAN,
       target \in TargetValues :
        CheckBoundaryCase(dependentVariable, useValue, target)

SpecInterpolator == InitInterpolator /\ [][NextInterpolator]_vars

(***************************************************************************)
(* RungeKuttaCoefficients: the four static coefficient sets of get( ) and  *)
(* their initialisers.  Matrices and vectors are indexed from 0 as in the  *)
(* code; a coefficient written as a quotient of two literals is the        *)
(* rational of that quotient, in lowest terms.                             *)
(***************************************************************************)
CoefficientSets ==
    {"rungeKuttaFehlberg45", "rungeKuttaFehlberg56", "rungeKuttaFehlberg78",
     "rungeKutta87DormandPrince"}

FehlbergSets ==
    {"rungeKuttaFehlberg45", "rungeKuttaFehlberg56", "rungeKuttaFehlberg78"}

\* a-coefficients of rungeKuttaFehlberg45Coefficients as the initialiser assigns them
Fehlberg45_a ==
    {<<1, 0, 1, 4>>, <<2, 0, 3, 32>>, <<2, 1, 9, 32>>, <<3, 0, 1932, 2197>>,
     <<3, 1, -7200, 2197>>, <<3, 2, 7296, 2197>>, <<4, 0, 439, 216>>,
     <<4, 1, -8, 1>>, <<4, 2, 3680, 513>>, <<4, 3, -845, 4104>>,
     <<5, 0, -8, 27>>, <<5, 1, 2, 1>>, <<5, 2, -3544, 2565>>,
     <<5, 3, 1859, 4104>>, <<5, 4, -11, 40>>}

\* c-coefficients of rungeKuttaFehlberg45Coefficients as the initialiser assigns them
\* variant: the third node of the Fehlberg 4(5) tableau is 3/7
Fehlberg45_c_Misprint ==
    {<<0, 0, 1>>, <<1, 1, 4>>, <<2, 3, 7>>, <<3, 12, 13>>, <<4, 1, 1>>,
     <<5, 1, 2>>}

Fehlberg45_c ==
    {<<0, 0, 1>>, <<1, 1, 4>>, <<2, 3, 8>>, <<3, 12, 13>>, <<4, 1, 1>>,
     <<5, 1, 2>>}

\* b-coefficients of rungeKuttaFehlberg45Coefficients as the initialiser assigns them
Fehlberg45_b ==
    {<<0, 0, 25, 216>>, <<0, 2, 1408, 2565>>, <<0, 3, 2197, 4104>>,
     <<0, 4, -1, 5>>, <<1, 0, 16, 135>>, <<1, 2, 6656, 12825>>,
     <<1, 3, 28561, 56430>>, <<1, 4, -9, 50>>, <<1, 5, 2, 55>>}

\* a-coefficients of rungeKuttaFehlberg56Coefficients as the initialiser assigns them
Fehlberg56_a ==
    {<<1, 0, 1, 6>>, <<2, 0, 4, 75>>, <<2, 1, 16, 75>>, <<3, 0, 5, 6>>,
     <<3, 1, -8, 3>>, <<3, 2, 5, 2>>, <<4, 0, -8, 5>>, <<4, 1, 144, 25>>,
     <<4, 2, -4, 1>>, <<4, 3, 16, 25>>, <<5, 0, 361, 320>>, <<5, 1, -18, 5>>,
     <<5, 2, 407, 128>>, <<5, 3, -11, 80>>, <<5, 4, 55, 128>>,
     <<6, 0, -11, 640>>, <<6, 1, 0, 1>>, <<6, 2, 11, 256>>,
     <<6, 3, -11, 160>>, <<6, 4, 11, 256>>, <<6, 5, 0, 1>>,
     <<7, 0, 93, 640>>, <<7, 1, -18, 5>>, <<7, 2, 803, 256>>,
     <<7, 3, -11, 160>>, <<7, 4, 99, 256>>, <<7, 5, 0, 1>>, <<7, 6, 1, 1>>}

\* c-coefficients of rungeKuttaFehlberg56Coefficients as the initialiser assigns them
Fehlberg56_c ==
    {<<1, 1, 6>>, <<2, 4, 15>>, <<3, 2, 3>>, <<4, 4, 5>>, <<5, 1, 1>>,
     <<7, 1, 1>>}

\* b-coefficients of rungeKuttaFehlberg56Coefficients as the initialiser assigns them
Fehlberg56_b ==
    {<<0, 0, 31, 384>>, <<0, 2, 1125, 2816>>, <<0, 3, 9, 32>>,
     <<0, 4, 125, 768>>, <<0, 5, 5, 66>>, <<1, 0, 7, 1408>>,
     <<1, 2, 1125, 2816>>, <<1, 3, 9, 32>>, <<1, 4, 125, 768>>,
     <<1, 6, 5, 66>>, <<1, 7, 5, 66>>}

\* a-coefficients of rungeKuttaFehlberg78Coefficients as the initialiser assigns them
Fehlberg78_a ==
    {<<1, 0, 2, 27>>, <<2, 0, 1, 36>>, <<2, 1, 1, 12>>, <<3, 0, 1, 24>>,
     <<3, 1, 0, 1>>, <<3, 2, 1, 8>>, <<4, 0, 5, 12>>, <<4, 1, 0, 1>>,
     <<4, 2, -25, 16>>, <<4, 3, 25, 16>>, <<5, 0, 1, 20>>, <<5, 1, 0, 1>>,
     <<5, 2, 0, 1>>, <<5, 3, 1, 4>>, <<5, 4, 1, 5>>, <<6, 0, -25, 108>>,
     <<6, 1, 0, 1>>, <<6, 2, 0, 1>>, <<6, 3, 125, 108>>, <<6, 4, -65, 27>>,
     <<6, 5, 125, 54>>, <<7, 0, 31, 300>>, <<7, 1, 0, 1>>, <<7, 2, 0, 1>>,
     <<7, 3, 0, 1>>, <<7, 4, 61, 225>>, <<7, 5, -2, 9>>, <<7, 6, 13, 900>>,
     <<8, 0, 2, 1>>, <<8, 1, 0, 1>>, <<8, 2, 0, 1>>, <<8, 3, -53, 6>>,
     <<8, 4, 704, 45>>, <<8, 5, -107, 9>>, <<8, 6, 67, 90>>, <<8, 7, 3, 1>>,
     <<9, 0, -91, 108>>, <<9, 1, 0, 1>>, <<9, 2, 0, 1>>, <<9, 3, 23, 108>>,
     <<9, 4, -976, 135>>, <<9, 5, 311, 54>>, <<9, 6, -19, 60>>,
     <<9, 7, 17, 6>>, <<9, 8, -1, 12>>, <<10, 0, 2383, 4100>>,
     <<10, 1, 0, 1>>, <<10, 2, 0, 1>>, <<10, 3, -341, 164>>,
     <<10, 4, 4496, 1025>>, <<10, 5, -301, 82>>, <<10, 6, 2133, 4100>>,
     <<10, 7, 45, 82>>, <<10, 8, 45, 164>>, <<10, 9, 18, 41>>,
     <<11, 0, 3, 205>>, <<11, 1, 0, 1>>, <<11, 2, 0, 1>>, <<11, 3, 0, 1>>,
     <<11, 4, 0, 1>>, <<11, 5, -6, 41>>, <<11, 6, -3, 205>>,
     <<11, 7, -3, 41>>, <<11, 8, 3, 41>>, <<11, 9, 6, 41>>, <<11, 10, 0, 1>>,
     <<12, 0, -1777, 4100>>, <<12, 1, 0, 1>>, <<12, 2, 0, 1>>,
     <<12, 3, -341, 164>>, <<12, 4, 4496, 1025>>, <<12, 5, -289, 82>>,
     <<12, 6, 2193, 4100>>, <<12, 7, 51, 82>>, <<12, 8, 33, 164>>,
     <<12, 9, 12, 41>>, <<12, 10, 0, 1>>, <<12, 11, 1, 1>>}

\* c-coefficients of rungeKuttaFehlberg78Coefficients as the initialiser assigns them
Fehlberg78_c ==
    {<<0, 0, 1>>, <<1, 2, 27>>, <<2, 1, 9>>, <<3, 1, 6>>, <<4, 5, 12>>,
     <<5, 1, 2>>, <<6, 5, 6>>, <<7, 1, 6>>, <<8, 2, 3>>, <<9, 1, 3>>,
     <<10, 1, 1>>, <<11, 0, 1>>, <<12, 1, 1>>}

\* b-coefficients of rungeKuttaFehlberg78Coefficients as the initialiser assigns them
Fehlberg78_b ==
    {<<0, 0, 41, 840>>, <<0, 5, 34, 105>>, <<0, 6, 9, 35>>, <<0, 7, 9, 35>>,
     <<0, 8, 9, 280>>, <<0, 9, 9, 280>>, <<0, 10, 41, 840>>,
     <<1, 5, 34, 105>>, <<1, 6, 9, 35>>, <<1, 7, 9, 35>>, <<1, 8, 9, 280>>,
     <<1, 9, 9, 280>>, <<1, 11, 41, 840>>, <<1, 12, 41, 840>>}

\* Eigen::MatrixXd::Zero( rows, columns ) followed by the assignments
FilledMatrix(rows, columns, entries) ==
    [i \in 0..(rows - 1) |->
        [j \in 0..(columns - 1) |->
            IF \E e \in entries : e[1] = i /\ e[2] = j
            THEN TheValue({Rat(e[3], e[4]) :
                              e \in {x \in entries : x[1] = i /\ x[2] = j}})
            ELSE RZero]]

\* Eigen::VectorXd::Zero( size ) followed by the assignments
FilledVector(size, entries) ==
    [i \in 0..(size - 1) |->
        IF \E e \in entries : e[1] = i
        THEN TheValue({Rat(e[2], e[3]) : e \in {x \in entries : x[1] = i}})
        ELSE RZero]

\* a default-constructed RungeKuttaCoefficients: empty matrices, orders 0
DefaultCoefficients ==
    [lowerOrder |-> 0, higherOrder |-> 0, orderEstimateToIntegrate |-> "lower",
     aCoefficients |-> <<>>, cCoefficients |-> <<>>, bCoefficients |-> <<>>]

\* what each initialiser assigns to the members of its coefficient set.  The
\* coefficients of the Dormand-Prince set have numerators and denominators
\* of up to eleven digits; its matrices are kept by their dimensions.
InitialisedCoefficients ==
    [rungeKuttaFehlberg45 |->
         [lowerOrder |-> 4, higherOrder |-> 5,
          orderEstimateToIntegrate |-> "lower",
          aCoefficients |-> FilledMatrix(6, 5, Fehlberg45_a),
          cCoefficients |-> FilledVector(6, Fehlberg45_c),
          bCoefficients |-> FilledMatrix(2, 6, Fehlberg45_b)],
     rungeKuttaFehlberg56 |->
         [lowerOrder |-> 5, higherOrder |-> 6,
          orderEstimateToIntegrate |-> "lower",
          aCoefficients |-> FilledMatrix(8, 7, Fehlberg56_a),
          cCoefficients |-> FilledVector(8, Fehlberg56_c),
          bCoefficients |-> FilledMatrix(2, 8, Fehlberg56_b)],
     rungeKuttaFehlberg78 |->
         [lowerOrder |-> 7, higherOrder |-> 8,
          orderEstimateToIntegrate |-> "lower",
          aCoefficients |-> FilledMatrix(13, 12, Fehlberg78_a),
          cCoefficients |-> FilledVector(13, Fehlberg78_c),
          bCoefficients |-> FilledMatrix(2, 13, Fehlberg78_b)],
     rungeKutta87DormandPrince |->
         [lowerOrder |-> 7, higherOrder |-> 8,
          orderEstimateToIntegrate |-> "higher",
          aCoefficients |-> [rows |-> 13, columns |-> 12],
          cCoefficients |-> [rows |-> 13, columns |-> 1],
          bCoefficients |-> [rows |-> 2, columns |-> 13]]]

\* a coefficient set after part `part` of its initialiser has been written;
\* the parts are written in the order orders, a, c, b
initializeCoefficients(coefficientSet, table, part) ==
    LET new == InitialisedCoefficients[coefficientSet]
    IN  IF part = "orders"
        THEN [table EXCEPT !.lowerOrder = new.lowerOrder,
                           !.higherOrder = new.higherOrder,
                           !.orderEstimateToIntegrate =
                               new.orderEstimateToIntegrate]
        ELSE IF part = "a"
        THEN [table EXCEPT !.aCoefficients = new.aCoefficients]
        ELSE IF part = "c"
        THEN [table EXCEPT !.cCoefficients = new.cCoefficients]
        ELSE [table EXCEPT !.bCoefficients = new.bCoefficients]

\* variant: the guard of the Fehlberg 5(6) set tests for the wrong order
initialisedOrder_WrongOrder(coefficientSet) ==
    IF coefficientSet = "rungeKuttaFehlberg45" THEN 5 ELSE 8

\* the value of higherOrder that get( ) takes for "already initialised"
initialisedOrder(coefficientSet) ==
    IF coefficientSet = "rungeKuttaFehlberg45" THEN 5
    ELSE IF coefficientSet = "rungeKuttaFehlberg56" THEN 6
    ELSE 8

\* a single caller makes at most MaxGets calls of get( )
MaxGets == 3

\* no call of get( ) has been made by caller t
IdleCaller(remaining) ==
    [pc |-> "idle", remaining |-> remaining,
     coefficientSet |-> "rungeKuttaFehlberg45", obtained |-> <<>>]

\* the static tables before the first call, with one caller
InitCoefficients ==
    /\ NoObservations
    /\ interpolator = NoInterpolator
    /\ rotation = NoRotation
    /\ massRate = NoMassRate
    /\ coefficients =
           [status |-> "static",
            tables |-> [s \in CoefficientSets |-> DefaultCoefficients],
            runs |-> [s \in CoefficientSets |-> 0],
            gets |-> [s \in CoefficientSets |-> 0],
            callers |-> <<IdleCaller(MaxGets)>>]

\* two threads have entered get( ) for the same coefficient set, which no
\* one has asked for before
InitCoefficientThreads ==
    /\ NoObservations
    /\ interpolator = NoInterpolator
    /\ rotation = NoRotation
    /\ massRate = NoMassRate
    /\ \E coefficientSet \in CoefficientSets :
           coefficients =
               [status |-> "static",
                tables |-> [s \in CoefficientSets |-> DefaultCoefficients],
                runs |-> [s \in CoefficientSets |-> 0],
                gets |-> [s \in CoefficientSets |->
                              IF s = coefficientSet THEN 2 ELSE 0],
                callers |->
                    [t \in 1..2 |->
                        [IdleCaller(0) EXCEPT !.pc = "switch",
                                              !.coefficientSet = coefficientSet]]]

Callers == DOMAIN coefficients.callers

\* what the steps of get( ) leave alone
notCoefficients == <<observationVars, interpolator, rotation, massRate>>

\* caller t calls get( coefficientSet )
CallGet(t, coefficientSet) ==
    /\ coefficients.callers[t].pc = "idle"
    /\ coefficients.callers[t].remaining > 0
    /\ coefficients' =
           [coefficients EXCEPT
                !.gets[coefficientSet] = @ + 1,
                !.callers[t].pc = "switch",
                !.callers[t].remaining = @ - 1,
                !.callers[t].coefficientSet = coefficientSet]
    /\ UNCHANGED notCoefficients

\* the switch and the test of higherOrder
TestInitialised(t) ==
    LET caller == coefficients.callers[t]
    IN  /\ caller.pc = "switch"
        /\ coefficients' =
               [coefficients EXCEPT
                    !.callers[t].pc =
                        IF coefficients.tables[caller.coefficientSet].higherOrder
                               # initialisedOrder(caller.coefficientSet)
                        THEN "orders" ELSE "return"]
        /\ UNCHANGED notCoefficients

\* the next part of the initialiser
Initialise(t) ==
    LET caller == coefficients.callers[t]
        NextPc == [orders |-> "a", a |-> "c", c |-> "b", b |-> "return"]
    IN  /\ caller.pc \in {"orders", "a", "c", "b"}
        /\ coefficients' =
               [coefficients EXCEPT
                    !.tables[caller.coefficientSet] =
                        initializeCoefficients(caller.coefficientSet, @, caller.pc),
                    !.runs[caller.coefficientSet] =
                        IF caller.pc = "orders" /\ @ < 2 THEN @ + 1 ELSE @,
                    !.callers[t].pc = NextPc[caller.pc]]
        /\ UNCHANGED notCoefficients

\* get( ) returns the reference: the caller has the table as it is now
ReturnCoefficients(t) ==
    LET caller == coefficients.callers[t]
    IN  /\ caller.pc = "return"
        /\ coefficients' =
               [coefficients EXCEPT
                    !.callers[t].pc = "idle",
                    !.callers[t].obtained =
                        <<coefficients.tables[caller.coefficientSet]>>]
        /\ UNCHANGED notCoefficients

NextCoefficients ==
    \E t \in Callers :
        \/ \E coefficientSet \in CoefficientSets : CallGet(t, coefficientSet)
        \/ TestInitialised(t)
        \/ Initialise(t)
        \/ ReturnCoefficients(t)

SpecCoefficients == InitCoefficients /\ [][NextCoefficients]_vars

NextCoefficientThreads ==
    \E t \in Callers :
        \/ TestInitialised(t)
        \/ Initialise(t)
        \/ ReturnCoefficients(t)

SpecCoefficientThreads == InitCoefficientThreads /\ [][NextCoefficientThreads]_vars

(***************************************************************************)
(* RotationalMotionExponentialMapStateDerivative: conversion between the   *)
(* conventional state (quaternion and angular velocity, 7 rows per body)   *)
(* and the propagated state (exponential map and angular velocity, 6 rows  *)
(* per body), and the switch to the shadow exponential map.  A state       *)
(* vector is a tuple of rationals; row r of the code is element r + 1.     *)
(* Angles are measured in eighths of a turn, which makes pi the integer    *)
(* below; the test against pi and the shadow factor 1 - 2 pi / |e| depend  *)
(* only on the ratio of |e| to pi.                                         *)
(***************************************************************************)
PI == 4

\* at most this many bodies are propagated
MaxBodies == 2

\* rotations by 0 and by pi about the three axes, as quaternion and as
\* exponential map
AttitudeElements ==
    {[quaternion |-> <<1, 0, 0, 0>>, exponentialMap |-> <<0, 0, 0>>],
     [quaternion |-> <<0, 1, 0, 0>>, exponentialMap |-> <<PI, 0, 0>>],
     [quaternion |-> <<0, 0, 1, 0>>, exponentialMap |-> <<0, PI, 0>>],
     [quaternion |-> <<0, 0, 0, 1>>, exponentialMap |-> <<0, 0, PI>>]}

RVec(v) == [k \in DOMAIN v |-> RInt(v[k])]

convertQuaternionsToExponentialMapElements(quaternionElements) ==
    RVec((CHOOSE r \in AttitudeElements :
              RVec(r.quaternion) = quaternionElements).exponentialMap)

convertExponentialMapToQuaternionElements(exponentialMapElements) ==
    RVec((CHOOSE r \in AttitudeElements :
              RVec(r.exponentialMap) = exponentialMapElements).quaternion)

\* angular velocities of a body
AngularVelocities == {<<0, 0, 0>>, <<1, 0, 2>>}

\* exponential-map vectors of norm 0, 3, pi, 5 and 6
ExponentialMapVectors ==
    {<<0, 0, 0>>, <<1, 2, 2>>, <<PI, 0, 0>>, <<0, 3, 4>>, <<2, 4, 4>>}

\* rows in front of the rotational block of a larger state
StartRows == {0, 3}

\* the states of 7 rows per body
RECURSIVE ConventionalStates(_)
ConventionalStates(bodies) ==
    IF bodies = 0 THEN {<<>>}
    ELSE {s \o RVec(r.quaternion) \o RVec(w) :
              s \in ConventionalStates(bodies - 1),
              r \in AttitudeElements, w \in AngularVelocities}

\* the states of 6 rows per body
RECURSIVE PropagatedStates(_)
PropagatedStates(bodies) ==
    IF bodies = 0 THEN {<<>>}
    ELSE {s \o RVec(e) \o RVec(w) :
              s \in PropagatedStates(bodies - 1),
              e \in ExponentialMapVectors, w \in AngularVelocities}

\* Eigen's v.segment( start, n ) = block, the other rows as they were
WithSegment(v, start, n, block) ==
    [k \in DOMAIN v |->
        IF start + 1 <= k /\ k <= start + n THEN block[k - start] ELSE v[k]]

getPropagatedStateSize(this) == 6 * this.bodiesToPropagate_

\* the loop of convertFromOutputSolution from body i on
RECURSIVE convertFromOutputSolution_Loop(_, _, _, _)
convertFromOutputSolution_Loop(this, outputSolution, currentState, i) ==
    IF i >= this.bodiesToPropagate_ THEN currentState
    ELSE convertFromOutputSolution_Loop(this, outputSolution,
             WithSegment(currentState, i * 6, 3,
                 convertQuaternionsToExponentialMapElements(
                     Segment(outputSolution, i * 7, 4))),
             i + 1)

convertFromOutputSolution(this, outputSolution) ==
    convertFromOutputSolution_Loop(this, outputSolution,
        [k \in 1..getPropagatedStateSize(this) |-> RZero], 0)

\* the loop of convertToOutputSolution from body i on
RECURSIVE convertToOutputSolution_Loop(_, _, _, _)
convertToOutputSolution_Loop(this, internalSolution, currentLocalSolution, i) ==
    IF i >= this.bodiesToPropagate_ THEN currentLocalSolution
    ELSE convertToOutputSolution_Loop(this, internalSolution,
             WithSegment(
                 WithSegment(currentLocalSolution, i * 7, 4,
                     convertExponentialMapToQuaternionElements(
                         Segment(internalSolution, i * 6, 3))),
                 i * 7 + 4, 3, Segment(internalSolution, i * 6 + 3, 3)),
             i + 1)

convertToOutputSolution(this, internalSolution, currentLocalSolution) ==
    convertToOutputSolution_Loop(this, internalSolution, currentLocalSolution, 0)

\* the norm of a vector of three rationals
RNorm(v) ==
    LET d == v[1][2] * v[2][2] * v[3][2]
        n == [k \in 1..3 |-> v[k][1] * (d \div v[k][2])]
    IN  Rat(Sqrt(n[1] * n[1] + n[2] * n[2] + n[3] * n[3]), d)

\* the shadow of the exponential-map vector e of magnitude m
Shadow(e, m) ==
    LET factor == RSub(ROne, RDiv(RInt(2 * PI), m))
    IN  [k \in 1..3 |-> RMul(e[k], factor)]

\* the loop of postProcessState from body i on
RECURSIVE postProcessState_Loop(_, _, _, _)
postProcessState_Loop(this, unprocessedState, startRow, i) ==
    IF i >= this.bodiesToPropagate_ THEN unprocessedState
    ELSE LET exponentialMapVector == Segment(unprocessedState, i * 6, 3)
             exponentialMapMagnitude == RNorm(exponentialMapVector)
         IN  postProcessState_Loop(this,
                 IF ~RLess(exponentialMapMagnitude, RInt(PI))
                 THEN WithSegment(unprocessedState, startRow + i * 6, 3,
                          Shadow(exponentialMapVector, exponentialMapMagnitude))
                 ELSE unprocessedState,
                 startRow, i + 1)

postProcessState(this, unprocessedState, startRow) ==
    postProcessState_Loop(this, unprocessedState, startRow, 0)

\* a propagator for one to MaxBodies bodies
InitRotation ==
    /\ NoObservations
    /\ interpolator = NoInterpolator
    /\ coefficients = NoCoefficients
    /\ massRate = NoMassRate
    /\ \E bodies \in 1..MaxBodies :
           rotation = [status |-> "constructed",
                       bodiesToPropagate_ |-> bodies,
                       outputSolution |-> <<>>,
                       currentState |-> <<>>,
                       currentQuaternionLocalSolution_ |-> <<>>,
                       startRow |-> 0,
                       unprocessedState |-> <<>>,
                       processedState |-> <<>>]

notRotation == <<observationVars, interpolator, coefficients, massRate>>

\* the initial conventional state is converted for the integrator
ConvertFromOutputSolution(outputSolution) ==
    /\ rotation.status = "constructed"
    /\ rotation' =
           [rotation EXCEPT
                !.status = "converted",
                !.outputSolution = outputSolution,
                !.currentState = convertFromOutputSolution(rotation, outputSolution)]
    /\ UNCHANGED notRotation

\* the propagated state is converted back for output
ConvertToOutputSolution ==
    /\ rotation.status = "converted"
    /\ rotation' =
           [rotation EXCEPT
                !.status = "output",
                !.currentQuaternionLocalSolution_ =
                    convertToOutputSolution(rotation, rotation.currentState,
                        [k \in 1..(7 * rotation.bodiesToPropagate_) |-> RZero])]
    /\ UNCHANGED notRotation

\* a state computed by the integrator is post-processed; the rotational
\* block starts at row startRow and one further row follows it
PostProcessState(unprocessedState, startRow) ==
    /\ rotation.status = "constructed"
    /\ rotation' =
           [rotation EXCEPT
                !.status = "postProcessed",
                !.startRow = startRow,
                !.unprocessedState = unprocessedState,
                !.processedState =
                    postProcessState(rotation, unprocessedState, startRow)]
    /\ UNCHANGED notRotation

NextRotation ==
    \/ \E outputSolution \in ConventionalStates(rotation.bodiesToPropagate_) :
           ConvertFromOutputSolution(outputSolution)
    \/ ConvertToOutputSolution
    \/ \E startRow \in StartRows,
          front \in {RVec(e) : e \in ExponentialMapVectors},
          block \in PropagatedStates(rotation.bodiesToPropagate_) :
           PostProcessState(Segment(front, 0, startRow) \o block \o <<RInt(7)>>,
                            startRow)

SpecRotation == InitRotation /\ [][NextRotation]_vars

(***************************************************************************)
(* MassRatePartial and FromThrustMassRatePartial: the constructor's map of *)
(* mass-dependent thrust sources and the partial function handed out per   *)
(* integrated state type.  A thrust acceleration is the sequence of its    *)
(* thrust sources; the map is a function on the keys it holds.             *)
(***************************************************************************)
\* at most this many thrust accelerations, each with at most this many sources
MaxThrustAccelerations == 2
MaxThrustSources == 2

\* engines, with the answer of getThrustMagnitudeWrapper( )->modelIsForceBased( )
EngineModels ==
    {[name |-> "MainEngine", modelIsForceBased |-> TRUE],
     [name |-> "Vernier", modelIsForceBased |-> FALSE]}

RECURSIVE SeqsUpTo(_, _)
SeqsUpTo(S, n) ==
    IF n = 0 THEN {<<>>}
    ELSE LET shorter == SeqsUpTo(S, n - 1)
         IN  shorter \cup {Append(s, x) : s \in shorter, x \in S}

\* what getThrustAccelerations( ) of the mass rate model may hold
ThrustAccelerationLists ==
    SeqsUpTo(SeqsUpTo(EngineModels, MaxThrustSources), MaxThrustAccelerations)

IntegratedStateType ==
    {"hybrid", "translational_state", "rotational_state", "body_mass_state",
     "custom_state"}

StateReferencePoints == {"Vehicle", "Earth"} \X {"", "Antenna"}

\* std::map with no key
EmptyMap == [k \in {} |-> <<>>]

\* map[ key ] = value
MapPut(map, key, value) ==
    [k \in DOMAIN map \cup {key} |-> IF k = key THEN value ELSE map[k]]

\* the inner loop of the constructor for thrust acceleration i, from source j
\* on; "out_of_range" when thrustSources.at( i ) throws
RECURSIVE currentMassDependentThrustSources(_, _, _, _)
currentMassDependentThrustSources(thrustSources, i, j, found) ==
    IF j >= Len(thrustSources) THEN found
    ELSE IF i >= Len(thrustSources) THEN "out_of_range"
    ELSE currentMassDependentThrustSources(thrustSources, i, j + 1,
             IF ~thrustSources[i + 1].modelIsForceBased
             THEN Append(found, thrustSources[i + 1])
             ELSE found)

\* the outer loop of the constructor from thrust acceleration i on
RECURSIVE FromThrustMassRatePartial_Loop(_, _)
FromThrustMassRatePartial_Loop(this, i) ==
    IF i >= Len(this.thrustAccelerations_) THEN this
    ELSE LET sources ==
                 currentMassDependentThrustSources(
                     this.thrustAccelerations_[i + 1], i, 0, <<>>)
         IN  IF sources = "out_of_range"
             THEN [this EXCEPT !.status = "out_of_range"]
             ELSE FromThrustMassRatePartial_Loop(
                      IF Len(sources) > 0
                      THEN [this EXCEPT !.accelerationBasedThrustSources_ =
                                            MapPut(@, i, sources)]
                      ELSE this,
                      i + 1)

\* the object the constructor leaves, or the exception it ends with
FromThrustMassRatePartial(body, thrustAccelerations) ==
    FromThrustMassRatePartial_Loop(
        [status |-> "constructed",
         body_ |-> body,
         massRateType_ |-> "from_thrust_mass_rate_model",
         thrustAccelerations_ |-> thrustAccelerations,
         accelerationBasedThrustSources_ |-> EmptyMap,
         call |-> <<>>,
         partialFunction |-> <<>>], 0)

isMassRatePartialWrtMassNonZero(this) ==
    IF DOMAIN this.accelerationBasedThrustSources_ = {} THEN FALSE ELSE TRUE

isStateDerivativeDependentOnIntegratedAdditionalStateTypes(this, stateReferencePoint, integratedStateType) ==
    FALSE

\* an outcome of getDerivativeFunctionWrtStateOfIntegratedBody
PartialFunction(status, function, size) ==
    [status |-> status, function |-> function, size |-> size]

\* variant: the partial with respect to the mass is handed out unconditionally
getDerivativeFunctionWrtStateOfIntegratedBody_AlwaysWrtMass(this, stateReferencePoint, integratedStateType) ==
    IF integratedStateType = "translational_state"
    THEN IF stateReferencePoint[2] # ""
         THEN PartialFunction("runtime_error", "empty", 0)
         ELSE PartialFunction("ok", "empty", 0)
    ELSE IF integratedStateType = "rotational_state"
    THEN PartialFunction("runtime_error", "empty", 0)
    ELSE IF integratedStateType = "body_mass_state"
    THEN IF stateReferencePoint[2] # ""
         THEN PartialFunction("runtime_error", "empty", 0)
         ELSE PartialFunction("ok", "wrtMassOfBody", 1)
    ELSE IF integratedStateType = "custom_state"
    THEN PartialFunction("ok", "empty", 0)
    ELSE PartialFunction("runtime_error", "empty", 0)

getDerivativeFunctionWrtStateOfIntegratedBody(this, stateReferencePoint, integratedStateType) ==
    IF integratedStateType = "translational_state"
    THEN IF stateReferencePoint[2] # ""
         THEN PartialFunction("runtime_error", "empty", 0)
         ELSE IF /\ this.body_ = stateReferencePoint[1]
                 /\ isStateDerivativeDependentOnIntegratedAdditionalStateTypes(
                        this, stateReferencePoint, integratedStateType)
         THEN PartialFunction("ok", "wrtTranslationalStateOfBody", 6)
         ELSE IF isStateDerivativeDependentOnIntegratedAdditionalStateTypes(
                     this, stateReferencePoint, integratedStateType)
         THEN PartialFunction("ok", "wrtTranslationalStateOfAdditionalBody", 6)
         ELSE PartialFunction("ok", "empty", 0)
    ELSE IF integratedStateType = "rotational_state"
    THEN PartialFunction("runtime_error", "empty", 0)
    ELSE IF integratedStateType = "body_mass_state"
    THEN IF stateReferencePoint[2] # ""
         THEN PartialFunction("runtime_error", "empty", 0)
         ELSE IF isMassRatePartialWrtMassNonZero(this)
         THEN PartialFunction("ok", "wrtMassOfBody", 1)
         ELSE PartialFunction("ok", "empty", 0)
    ELSE IF integratedStateType = "custom_state"
    THEN PartialFunction("ok", "empty", 0)
    ELSE PartialFunction("runtime_error", "empty", 0)

\* no partial has been constructed yet
InitMassRate ==
    /\ NoObservations
    /\ interpolator = NoInterpolator
    /\ coefficients = NoCoefficients
    /\ rotation = NoRotation
    /\ massRate = NoMassRate

notMassRate == <<observationVars, interpolator, coefficients, rotation>>

\* new FromThrustMassRatePartial( "Vehicle", massRateModel )
ConstructFromThrustMassRatePartial(thrustAccelerations) ==
    /\ massRate.status = "none"
    /\ massRate' = FromThrustMassRatePartial("Vehicle", thrustAccelerations)
    /\ UNCHANGED notMassRate

\* a call of getDerivativeFunctionWrtStateOfIntegratedBody on the partial
GetDerivativeFunctionWrtStateOfIntegratedBody(stateReferencePoint, integratedStateType) ==
    /\ massRate.status = "constructed"
    /\ massRate.call = <<>>
    /\ massRate' =
           [massRate EXCEPT
                !.call = <<stateReferencePoint, integratedStateType>>,
                !.partialFunction =
                    <<getDerivativeFunctionWrtStateOfIntegratedBody(
                          massRate, stateReferencePoint, integratedStateType)>>]
    /\ UNCHANGED notMassRate

NextMassRate ==
    \/ \E thrustAccelerations \in ThrustAccelerationLists :
           ConstructFromThrustMassRatePartial(thrustAccelerations)
    \/ \E stateReferencePoint \in StateReferencePoints,
          integratedStateType \in IntegratedStateType :
           GetDerivativeFunctionWrtStateOfIntegratedBody(stateReferencePoint,
                                                         integratedStateType)

SpecMassRate == InitMassRate /\ [][NextMassRate]_vars
(***************************************************************************)
(* Properties.  `ret` describes the latest call, so a property about a     *)
(* call is stated on the states in which that call is the latest one.      *)
(***************************************************************************)
ObservationOps ==
    {"computeIdealObservations", "computeIdealObservationsWithLinkEndData"}
OneWayLinkEnds == {transmitter, receiver}
UpdateCalled == lastUpdate.calls > 0
PartialReturned == ret.op = "calculatePartial" /\ ret.status = "ok"
NumberOfPositionPartials == Len(positionPartialList_)
NumberOfLightTimePartials == Len(lighTimeCorrectionPartialsFunctions_)
\* index into the state and time lists of a link end of the one-way link
IndexOf(le) == IF le = transmitter THEN 1 ELSE 2

\* C1: for every time and for the anchor link ends transmitter and receiver,
\* computeIdealObservations and computeIdealObservationsWithLinkEndData give the
\* same outcome: both fail alike or both return the same observable value.
C1_SameObservable ==
    /\ (ret.op = "computeIdealObservations" /\ ret.linkEnd \in OneWayLinkEnds) =>
           LET w == computeIdealObservationsWithLinkEndData(
                        ret.time, ret.linkEnd, linkEndTimes, linkEndStates)
           IN  w.status = ret.status /\ w.value = ret.value
    /\ (ret.op = "computeIdealObservationsWithLinkEndData"
            /\ ret.linkEnd \in OneWayLinkEnds) =>
           LET v == computeIdealObservations(ret.time, ret.linkEnd)
           IN  v.status = ret.status /\ v.value = ret.value

\* C1 witness: a range was returned for the receiver as anchor, and the range
\* for the transmitter as anchor at the same time is another one.
C1_Witness ==
    /\ ret.op = "computeIdealObservationsWithLinkEndData"
    /\ ret.linkEnd = receiver
    /\ ret.status = "ok"
    /\ computeIdealObservations(ret.time, transmitter).status = "ok"
    /\ computeIdealObservations(ret.time, transmitter).value # ret.value

\* C2: after any update, getScalingFactor(receiver, X) is minus
\* getScalingFactor(transmitter, X) in each of the three components, for X the
\* transmitter and X the receiver.
C2_Antisymmetry ==
    UpdateCalled =>
        \A X \in OneWayLinkEnds : \A k \in 1..3 :
            getScalingFactor(receiver, X).value[k]
                = RNeg(getScalingFactor(transmitter, X).value[k])

\* C2 witness: after an update, getScalingFactor(receiver, X) returned a vector
\* with a non-zero component.
C2_Witness ==
    /\ UpdateCalled
    /\ ret.op = "getScalingFactor"
    /\ ret.linkEndType = receiver
    /\ ret.status = "ok"
    /\ \E k \in 1..3 : ret.value[k] # RZero

\* C4: getScalingFactor(L, X) and getLightTimePartialScalingFactor(X) fail with
\* an error and return no value when X is neither transmitter nor receiver,
\* for every differentiated link end L.
C4_IncompatibleLinkEnd ==
    /\ \A X \in LinkEndType \ OneWayLinkEnds :
           /\ \A L \in LinkEndType :
                  /\ getScalingFactor(L, X).status = "runtime_error"
                  /\ getScalingFactor(L, X).value = <<>>
           /\ getLightTimePartialScalingFactor(X).status = "runtime_error"
           /\ getLightTimePartialScalingFactor(X).value = <<>>
    /\ (ret.op \in {"getScalingFactor", "getLightTimePartialScalingFactor"}
            /\ ret.linkEnd \notin OneWayLinkEnds) =>
           ret.status = "runtime_error" /\ ret.value = <<>>

\* C4 witness: after an update, getLightTimePartialScalingFactor was asked for
\* the retransmitter and failed.
C4_Witness ==
    /\ UpdateCalled
    /\ ret.op = "getLightTimePartialScalingFactor"
    /\ ret.linkEnd = retransmitter
    /\ ret.status = "runtime_error"

\* C5: both observation functions fail with an error, and do not invoke the
\* light-time calculator, when the anchor is neither transmitter nor receiver.
C5_InvalidAnchor ==
    (ret.op \in ObservationOps /\ ret.linkEnd \notin OneWayLinkEnds) =>
        ret.status = "runtime_error" /\ ~ret.calculatorInvoked

\* C5 witness: computeIdealObservations was called with the retransmitter as
\* anchor.
C5_Witness ==
    /\ ret.op = "computeIdealObservations"
    /\ ret.linkEnd = retransmitter
    /\ ret.status = "runtime_error"

\* C6: called with empty vectors, computeIdealObservationsWithLinkEndData
\* leaves linkEndTimes = [transmission time, reception time] and linkEndStates
\* = [state of the transmitter at transmission, state of the receiver at
\* reception]; the time of the anchor is the input time, and reception minus
\* transmission time is the returned range divided by the speed of light.
C6_SignalFlowOrder ==
    (/\ ret.op = "computeIdealObservationsWithLinkEndData"
     /\ ret.status = "ok"
     /\ ret.entryLength = 0) =>
        /\ Len(ret.times) = 2
        /\ Len(ret.states) = 2
        /\ ret.times[IndexOf(ret.linkEnd)] = RInt(ret.time)
        /\ RSub(ret.times[2], ret.times[1])
               = RDiv(ret.value, RInt(SPEED_OF_LIGHT))
        /\ ~RLess(ret.times[2], ret.times[1])
        /\ ret.states[1] = StateAt(lightTimeCalculator_.ephemeris, transmitter,
                                   ret.times[1])
        /\ ret.states[2] = StateAt(lightTimeCalculator_.ephemeris, receiver,
                                   ret.times[2])

\* C6 witness: such a call with the receiver as anchor, in which the
\* transmitter was at transmission time in another state than at the input time.
C6_Witness ==
    /\ ret.op = "computeIdealObservationsWithLinkEndData"
    /\ ret.status = "ok"
    /\ ret.entryLength = 0
    /\ ret.linkEnd = receiver
    /\ ret.states[1] # StateAt(lightTimeCalculator_.ephemeris, transmitter,
                               RInt(ret.time))

\* C7: after any sequence of update calls the members of the scaling object,
\* and with them what getScalingFactor and getLightTimePartialScalingFactor
\* return, are those a single update with the states of the last call gives,
\* whatever the members held before.
C7_UpdateHasNoHistory ==
    UpdateCalled =>
        \A before \in UninitialisedScalings \cup {oneWayRangeScaler_} :
            /\ oneWayRangeScaler_
                   = update(before, lastUpdate.states, <<>>, transmitter)
            /\ oneWayRangeScaler_
                   = update(before, lastUpdate.states, <<>>, receiver)

\* C7 witness: update has been called at least twice, and its latest call is
\* the latest call.
C7_Witness ==
    /\ lastUpdate.calls = 2
    /\ ret.op = "update"
    /\ oneWayRangeScaler_ \notin UninitialisedScalings

\* C8: entry i of the returned list, for the i-th position partial (L, P), is
\* the pair (getScalingFactor(L, fixed link end) times P evaluated at the state
\* and time of L, time of L), the state and time of L being the first entries
\* of the lists for the transmitter and the second for the receiver.
C8_PositionPartialEntries ==
    PartialReturned =>
        \A i \in 1..NumberOfPositionPartials :
            LET L == positionPartialList_[i] IN
            /\ ret.partial[i].first
                   = RowTimes(getScalingFactor(L, ret.linkEnd).value,
                              PositionPartialCalculate(L, linkEndStates[IndexOf(L)],
                                                       linkEndTimes[IndexOf(L)]))
            /\ ret.partial[i].second = linkEndTimes[IndexOf(L)]

\* C8 witness: a list was returned for a partial with position partials of both
\* link ends, whose times differ, with the receiver as fixed link end.
C8_Witness ==
    /\ PartialReturned
    /\ ret.linkEnd = receiver
    /\ positionPartialList_ = <<transmitter, receiver>>
    /\ linkEndTimes[1] # linkEndTimes[2]
    /\ linkEndStates[1] # linkEndStates[2]

\* C9: the entries for the light-time-correction partial functions come after
\* all position-partial entries, one per function and in their order, and the
\* matrix of each is the function's matrix on the full state and time lists
\* times minus the speed of light times
\* getLightTimePartialScalingFactor(fixed link end).
C9_LightTimeCorrectionEntries ==
    PartialReturned =>
        /\ Len(ret.partial) = NumberOfPositionPartials + NumberOfLightTimePartials
        /\ \A i \in 1..NumberOfLightTimePartials :
               ret.partial[NumberOfPositionPartials + i].first
                   = Scale(LightTimeCorrectionPartialFunction(
                               lighTimeCorrectionPartialsFunctions_[i],
                               linkEndStates, linkEndTimes).first,
                           RNeg(RMul(RInt(SPEED_OF_LIGHT),
                                     getLightTimePartialScalingFactor(ret.linkEnd).value)))

\* C9 witness: a list with position-partial entries and light-time-correction
\* entries was returned for the transmitter as fixed link end, and a
\* light-time-correction entry is not zero.
C9_Witness ==
    /\ PartialReturned
    /\ ret.linkEnd = transmitter
    /\ NumberOfPositionPartials > 0
    /\ NumberOfLightTimePartials > 1
    /\ UpdateCalled
    /\ \E j \in 1..ParameterSize :
           ret.partial[NumberOfPositionPartials + 1].first[j] # RZero

LineOfSight(states) ==
    LET d == VecSub(Segment(states[2], 0, 3), Segment(states[1], 0, 3))
    IN  VecOver(d, VecNorm(d))

\* the states with the velocity of link end X replaced by w
WithVelocity(states, X, w) ==
    [states EXCEPT ![IndexOf(X)] = Segment(states[IndexOf(X)], 0, 3) \o w]

\* velocities the fixed link end could have had instead
OtherVelocities == {<<0, 0, 0>>, <<1, -2, 2>>, <<-3, 0, 1>>}

\* the members of a scaling object that serve the reference link end X
MembersFor(scaling, X) ==
    IF X = transmitter
    THEN <<scaling.transmitterReferenceLightTimeCorrectionScaling_,
           scaling.transmitterReferenceScalingFactor_>>
    ELSE <<scaling.receiverReferenceLightTimeCorrectionScaling_,
           scaling.receiverReferenceScalingFactor_>>

\* C11: after update, for each fixed link end X, getLightTimePartialScalingFactor(X)
\* is 1/(1 - v.s/c) with s the unit line-of-sight vector and v the velocity of
\* the link end that is not X, getScalingFactor(transmitter, X) is s times that
\* scalar, and neither changes when the velocity of X is replaced by another.
C11_ScalingFormula ==
    UpdateCalled =>
        \A X \in OneWayLinkEnds, s \in {LineOfSight(lastUpdate.states)} :
            LET v == Segment(lastUpdate.states[IF X = receiver THEN 1 ELSE 2], 3, 3)
            IN  \A scalar \in {RDiv(RInt(SPEED_OF_LIGHT),
                                     RSub(RInt(SPEED_OF_LIGHT), Dot(s, v)))} :
                    /\ getLightTimePartialScalingFactor(X).value = scalar
                    /\ getScalingFactor(transmitter, X).value
                           = [k \in 1..3 |-> RMul(s[k], scalar)]
                    /\ \A w \in OtherVelocities :
                           MembersFor(update(oneWayRangeScaler_,
                                             WithVelocity(lastUpdate.states, X, w),
                                             <<>>, X), X)
                               = MembersFor(oneWayRangeScaler_, X)

\* C11 witness: after an update with link ends whose velocities give two
\* different scalars, neither of them 1, getScalingFactor(transmitter, X) was
\* returned.
C11_Witness ==
    /\ UpdateCalled
    /\ ret.op = "getScalingFactor"
    /\ ret.linkEndType = transmitter
    /\ ret.status = "ok"
    /\ getLightTimePartialScalingFactor(transmitter).value
           # getLightTimePartialScalingFactor(receiver).value
    /\ getLightTimePartialScalingFactor(transmitter).value # ROne
    /\ getLightTimePartialScalingFactor(receiver).value # ROne

\* the link of the end-to-end scenario: both link ends at rest at all times,
\* one light-second apart, no correction terms
StationaryOneLightSecond ==
    /\ currentCorrection = RZero
    /\ \A le \in OneWayLinkEnds :
           /\ lightTimeCalculator_.ephemeris[le].before
                  = lightTimeCalculator_.ephemeris[le].after
           /\ Segment(lightTimeCalculator_.ephemeris[le].before, 3, 3) = <<0, 0, 0>>
    /\ VecNorm(VecSub(Segment(lightTimeCalculator_.ephemeris[receiver].before, 0, 3),
                      Segment(lightTimeCalculator_.ephemeris[transmitter].before, 0, 3)))
           = SPEED_OF_LIGHT

\* squared norm of a rational 3-vector
NormSquared(u) == RAdd(RMul(u[1], u[1]), RAdd(RMul(u[2], u[2]), RMul(u[3], u[3])))

\* C12: for two link ends at rest one light-second apart and no correction
\* terms, the light time is 1 s for either anchor, and after update
\* getLightTimePartialScalingFactor is 1 and getScalingFactor(transmitter, X) is
\* the unit line-of-sight vector, of norm 1, for both reference link ends X.
C12_StationaryScenario ==
    StationaryOneLightSecond =>
        /\ (ret.op \in ObservationOps /\ ret.linkEnd \in OneWayLinkEnds) =>
               /\ ret.status = "ok"
               /\ RDiv(ret.value, RInt(SPEED_OF_LIGHT)) = ROne
        /\ (ret.op = "computeIdealObservationsWithLinkEndData" /\ ret.status = "ok") =>
               RSub(ret.times[Len(ret.times)], ret.times[Len(ret.times) - 1]) = ROne
        /\ UpdateCalled =>
               \A X \in OneWayLinkEnds :
                   /\ getLightTimePartialScalingFactor(X).value = ROne
                   /\ getScalingFactor(transmitter, X).value
                          = LineOfSight(<<lightTimeCalculator_.ephemeris[transmitter].before,
                                          lightTimeCalculator_.ephemeris[receiver].before>>)
                   /\ NormSquared(getScalingFactor(transmitter, X).value) = ROne

\* C12 witness: in that scenario a range was computed with link-end data,
\* update was called and getScalingFactor(transmitter, X) was returned.
C12_Witness ==
    /\ StationaryOneLightSecond
    /\ UpdateCalled
    /\ Len(linkEndTimes) = 2
    /\ RSub(linkEndTimes[2], linkEndTimes[1]) = ROne
    /\ ret.op = "getScalingFactor"
    /\ ret.linkEndType = transmitter
    /\ ret.status = "ok"

\* the bodies whose gravitational parameter a correction of the link reads
PerturbingBodies ==
    {lightTimeCalculator_.perturbingBodies[k] :
        k \in 1..Len(lightTimeCalculator_.perturbingBodies)}

\* C13: for a body that is not among the perturbing bodies of a light-time
\* correction of the link, the observable computed with the gravitational
\* parameter raised equals the one computed with it lowered, so the central
\* difference is exactly 0; and the second evaluation succeeds when the first did.
C13_UnrelatedParameter ==
    numericalPartial.parameter \notin PerturbingBodies =>
        /\ numericalPartial.pc \in {"observedDown", "done"} =>
               numericalPartial.up = numericalPartial.down
        /\ numericalPartial.pc = "done" => numericalPartial.result = RZero
        /\ numericalPartial.pc # "failedDown"

\* C13 witness: the central difference with respect to the gravitational
\* parameter of Mars was computed for a link whose correction has the
\* perturbing bodies Earth and Sun and delays the signal.
C13_Witness ==
    /\ numericalPartial.pc = "done"
    /\ numericalPartial.parameter = "Mars"
    /\ PerturbingBodies = {"Earth", "Sun"}
    /\ gravitationalParameter = NominalGravitationalParameter
    /\ RLess(RInt(VecNorm(VecSub(
                 Segment(lightTimeCalculator_.ephemeris[receiver].before, 0, 3),
                 Segment(lightTimeCalculator_.ephemeris[transmitter].before, 0, 3)))),
             numericalPartial.up)

\* the list calculatePartial returns for the fixed link end X when the
\* scaling object holds `scaling`: the position-partial entries, then the
\* light-time-correction entries
ExpectedPartial(scaling, states, times, X) ==
    [i \in 1..NumberOfPositionPartials |->
        LET L == positionPartialList_[i] IN
        [first |-> RowTimes(Scale(MembersFor(scaling, X)[2],
                                  IF L = receiver THEN RInt(-1) ELSE ROne),
                            PositionPartialCalculate(L, states[IndexOf(L)],
                                                     times[IndexOf(L)])),
         second |-> times[IndexOf(L)]]]
    \o
    [i \in 1..NumberOfLightTimePartials |->
        LET p == LightTimeCorrectionPartialFunction(
                     lighTimeCorrectionPartialsFunctions_[i], states, times) IN
        [first |-> Scale(p.first, RNeg(RMul(RInt(SPEED_OF_LIGHT),
                                            MembersFor(scaling, X)[1]))),
         second |-> p.second]]

\* for a single caller, calculatePartial after update returns the expected list
ExpectedPartialOfSingleCaller ==
    (PartialReturned /\ UpdateCalled) =>
        ret.partial = ExpectedPartial(oneWayRangeScaler_, linkEndStates,
                                      linkEndTimes, ret.linkEnd)

\* what a worker obtains when it evaluates its epoch alone
Alone(w) ==
    computeIdealObservationsWithLinkEndData(workers[w].time, workers[w].linkEnd,
                                            <<>>, <<>>)

\* C14: under every interleaving of the calls of the two workers, each worker
\* obtains the link-end times and states, and the partials, that it obtains
\* when it evaluates its epoch alone.
C14_WorkersIndependent ==
    \A w \in DOMAIN workers :
        /\ workers[w].pc \in {"observed", "updated", "done"} =>
               /\ workers[w].times = Alone(w).times
               /\ workers[w].states = Alone(w).states
               /\ workers[w].observation = Alone(w).value
        /\ workers[w].pc = "done" =>
               workers[w].partial
                   = ExpectedPartial(update(oneWayRangeScaler_, Alone(w).states,
                                            Alone(w).times, workers[w].linkEnd),
                                     Alone(w).states, Alone(w).times,
                                     workers[w].linkEnd)

\* the order of the phases of the Estimation Manager
PhaseFollows(a, b) ==
    \/ a = b
    \/ <<a, b>> \in {<<"Initialize", "Propagate&Simulate">>,
                     <<"Propagate&Simulate", "Linearize">>,
                     <<"Linearize", "Solve">>,
                     <<"Solve", "Converged">>,
                     <<"Solve", "Iterate">>,
                     <<"Iterate", "Propagate&Simulate">>}

\* C15: a run of the Estimation Manager starts in Initialize, every step keeps
\* the phase or moves it along Initialize, Propagate&Simulate, Linearize, Solve,
\* then Converged or Iterate and from Iterate back to Propagate&Simulate, and
\* the propagator is invoked exactly once in each iteration, with the parameter
\* values the iteration started with.
C15_PhaseOrder ==
    /\ estimation.phase = "Initialize"
    /\ [][/\ PhaseFollows(estimation.phase, estimation'.phase)
          /\ estimation'.propagations <= 1
          /\ estimation'.phase \in {"Linearize", "Solve", "Converged", "Iterate"} =>
                 estimation'.propagations = 1
          /\ estimation'.propagations = 1 =>
                 estimation'.propagatedWith = estimation'.iterationStart
          /\ estimation'.iteration # estimation.iteration =>
                 /\ estimation'.iteration = estimation.iteration + 1
                 /\ estimation'.phase = "Propagate&Simulate"
                 /\ estimation'.propagations = 0]_vars

\* C15 witness: the second iteration was entered from Iterate and has invoked
\* the propagator once, with a corrected parameter value.
C15_Witness ==
    /\ estimation.phase = "Propagate&Simulate"
    /\ estimation.iteration = 2
    /\ estimation.propagations = 1
    /\ estimation.propagatedWith = 2

\* C16: every estimation run ends; the iteration count never exceeds the fixed
\* maximum; the run goes on to a further iteration only when the matrix was
\* not singular, the parameter change was not below tolerance and the maximum
\* is not reached; and a run that has ended takes no further step.
C16_Terminates ==
    /\ <>estimation.finished
    /\ [](estimation.iteration <= MaxEstimationIterations)
    /\ [](estimation.phase = "Converged" \/ estimation.singular
              => estimation.finished)
    /\ [][/\ ~estimation.finished
          /\ estimation'.phase = "Iterate" /\ estimation.phase = "Solve" =>
                 /\ estimation'.parameters # estimation.parameters
                 /\ ~estimation'.singular
                 /\ estimation.iteration < MaxEstimationIterations]_vars

\* C16 witness: a run ended because the maximum number of iterations was
\* reached.
C16_Witness ==
    /\ estimation.finished
    /\ estimation.output.condition = "MaxIterations"
    /\ estimation.iteration = MaxEstimationIterations

\* C17: when the normal-equations matrix is singular the run ends with the
\* condition EstimationDegenerate, and its output holds the last parameter
\* vector, which is the one the iteration started with, and a validity flag for
\* every epoch.
C17_DegenerateReported ==
    estimation.singular =>
        /\ estimation.finished
        /\ estimation.output.condition = "EstimationDegenerate"
        /\ estimation.output.parameters = estimation.parameters
        /\ estimation.output.parameters = estimation.iterationStart
        /\ DOMAIN estimation.output.valid = Epochs
        /\ \A k \in Epochs :
               estimation.output.valid[k] = (estimation.outcome[k] = "ok")

\* C17 witness: the matrix was singular in the second iteration, with one
\* valid and one invalid epoch.
C17_Witness ==
    /\ estimation.singular
    /\ estimation.iteration = 2
    /\ \E j, k \in Epochs : estimation.valid[j] /\ ~estimation.valid[k]

\* C18: throughout Propagate&Simulate and Linearize the parameter value is the
\* one the iteration started with, and the computed observables and the
\* residual rows of the iteration are formed with that value, also when Solve
\* has applied its correction.
C18_NoPrematureOverwrite ==
    /\ estimation.phase \in {"Propagate&Simulate", "Linearize"} =>
           /\ estimation.parameters = estimation.iterationStart
           /\ \A k \in Epochs :
                  estimation.outcome[k] = "ok" =>
                      estimation.computedWith[k] = estimation.iterationStart
    /\ estimation.phase \in {"Linearize", "Solve"} =>
           \A k \in estimation.assembled :
               /\ estimation.residualsWith[k] = estimation.iterationStart
               /\ estimation.computedWith[k] = estimation.iterationStart

\* C18 witness: in its second iteration the manager has formed residual rows,
\* and Solve has then applied a correction.
C18_Witness ==
    /\ estimation.phase = "Solve"
    /\ estimation.iteration = 2
    /\ estimation.assembled # {}
    /\ estimation.parameters # estimation.iterationStart

\* C19: an epoch that fails with NonConvergence or InvalidGeometry is marked
\* invalid and left out of the normal equations, it does not end the run, and
\* every epoch of the batch is simulated before Linearize; a role mismatch ends
\* the run at once, in the phase it occurred in, with no later epoch processed.
C19_EpochFailures ==
    /\ \A k \in Epochs :
           estimation.outcome[k] \in EpochFailures =>
               /\ ~estimation.valid[k]
               /\ k \notin estimation.assembled
               /\ estimation.output.condition \notin EpochFailures
    /\ estimation.phase \in {"Linearize", "Solve", "Converged", "Iterate"} =>
           \A k \in Epochs : estimation.outcome[k] # "pending"
    /\ estimation.phase \in {"Solve", "Converged", "Iterate"} =>
           estimation.assembled = {k \in Epochs : estimation.outcome[k] = "ok"}
    /\ \A k \in Epochs :
           estimation.outcome[k] \in RoleMismatches =>
               /\ estimation.finished
               /\ estimation.output.condition = estimation.outcome[k]
               /\ estimation.phase \in {"Propagate&Simulate", "Linearize"}
               /\ \A j \in Epochs :
                      j > k => /\ j \notin estimation.assembled
                               /\ estimation.phase = "Propagate&Simulate" =>
                                      estimation.outcome[j] = "pending"

\* C19 witness: the first epoch failed with NonConvergence, the second was
\* simulated and is the only one in the normal equations.
C19_Witness ==
    /\ estimation.phase = "Solve"
    /\ estimation.outcome[1] = "NonConvergence"
    /\ estimation.outcome[2] = "ok"
    /\ estimation.assembled = {2}

\* a solve that has ended did so as the calculator's solve of the same inputs
SolveAgreesWithCalculator ==
    solve.status \notin {"none", "iterating"} =>
        LET r == calculateLightTimeWithLinkEndsStates(
                     solve.ephemeris, solve.delay, solve.time,
                     solve.isTimeAtReception)
        IN  /\ r.status = solve.status
            /\ r.status = "ok" => r.lightTime = solve.lightTime

\* C20: every light-time solve ends; it returns a light time only when the
\* last change of the light time was below the tolerance, and that light time
\* is not negative; it fails with NonConvergence only when the iteration count
\* has reached the bound, which the count never exceeds.
C20_LightTimeTerminates ==
    /\ <>(solve.status \in {"ok", "NonConvergence", "InvalidGeometry"})
    /\ [](solve.count <= MaxIterations)
    /\ [](solve.status = "ok" =>
              /\ RLess(solve.change, LightTimeTolerance)
              /\ ~RLess(solve.lightTime, RZero))
    /\ [](solve.status = "NonConvergence" =>
              /\ solve.count = MaxIterations
              /\ ~RLess(solve.change, LightTimeTolerance))
    /\ [][solve.status = "iterating"]_vars

\* C20 witness: a solve failed with NonConvergence after the light time kept
\* changing.
C20_Witness ==
    /\ solve.status = "NonConvergence"
    /\ solve.count = MaxIterations
    /\ RLess(RZero, solve.change)


\* C21: checkBoundaryCase leaves useValue false and the dependent variable
\* as it was, and throws nothing, when the target is within the range of the
\* independent values (end points included), whatever the policy; for a
\* target outside the range it throws under throw_exception_at_boundary,
\* takes the first (below) or last (above) dependent value under the two
\* use_boundary_value policies, takes the default extrapolation value under
\* the two use_default_value policies, and leaves useValue false and the
\* dependent variable as it was under the two extrapolate policies.
C21_BoundaryCase ==
    interpolator.status \in {"ok", "runtime_error"} =>
        LET first == Head(interpolator.independentValues_)
            last == interpolator.independentValues_[
                        Len(interpolator.independentValues_)]
            below == interpolator.target < first
            above == interpolator.target > last
            policy == interpolator.boundaryHandling_
            Untouched ==
                /\ ~interpolator.useValue
                /\ interpolator.dependentVariable
                       = interpolator.entry.dependentVariable
        IN  /\ ~(below \/ above) => interpolator.status = "ok" /\ Untouched
            /\ (below \/ above) =>
                   /\ interpolator.status = "runtime_error"
                          <=> policy = "throw_exception_at_boundary"
                   /\ policy \in {"use_boundary_value",
                                  "use_boundary_value_with_warning"} =>
                          /\ interpolator.useValue
                          /\ below => interpolator.dependentVariable
                                          = Head(interpolator.dependentValues_)
                          /\ above => interpolator.dependentVariable
                                          = interpolator.dependentValues_[
                                                Len(interpolator.dependentValues_)]
                   /\ policy \in {"use_default_value",
                                  "use_default_value_with_warning"} =>
                          /\ interpolator.useValue
                          /\ interpolator.dependentVariable
                                 = interpolator.defaultExtrapolationValue_
                   /\ policy \in {"extrapolate_at_boundary",
                                  "extrapolate_at_boundary_with_warning"} =>
                          Untouched

\* C21 witness: a call under use_boundary_value with a target on the last
\* grid point of a three-point grid, on entry with useValue true.
C21_Witness ==
    /\ interpolator.status = "ok"
    /\ interpolator.boundaryHandling_ = "use_boundary_value"
    /\ Len(interpolator.independentValues_) = 3
    /\ interpolator.target = interpolator.independentValues_[3]
    /\ interpolator.entry.useValue
    /\ ~interpolator.useValue

\* C22: when computeIdealObservationsWithLinkEndData has returned a value,
\* linkEndTimes holds the transmission and reception time and linkEndStates
\* the transmitter and receiver state of this observation and nothing else,
\* whatever the vectors held on entry.
C22_ExactlyThisObservation ==
    (ret.op = "computeIdealObservationsWithLinkEndData" /\ ret.status = "ok") =>
        /\ Len(linkEndTimes) = 2
        /\ Len(linkEndStates) = 2
        /\ linkEndTimes[IndexOf(ret.linkEnd)] = RInt(ret.time)
        /\ RMul(RSub(linkEndTimes[2], linkEndTimes[1]), RInt(SPEED_OF_LIGHT))
               = ret.value

\* C23: a call of computeIdealObservationsWithLinkEndData that throws, for
\* an invalid anchor link end or out of the light-time calculator, leaves
\* linkEndTimes and linkEndStates as they were on entry.
C23_FailureLeavesVectors ==
    [][(ret'.op = "computeIdealObservationsWithLinkEndData" /\ ret'.status # "ok")
           => (linkEndTimes' = linkEndTimes /\ linkEndStates' = linkEndStates)]_vars

\* C23 witness: the light-time calculator has failed in a call on vectors
\* that held an earlier observation.
C23_Witness ==
    /\ ret.op = "computeIdealObservationsWithLinkEndData"
    /\ ret.status \in {"NonConvergence", "InvalidGeometry"}
    /\ ret.entryLength = 2
    /\ Len(linkEndTimes) = 2

\* the sum of the entries 0 .. n - 1 of a row of rationals
RECURSIVE RowSum(_, _)
RowSum(row, n) ==
    IF n = 0 THEN RZero
    ELSE TheValue({RAdd(s, row[n - 1]) : s \in {RowSum(row, n - 1)}})

\* the number of stages of each Fehlberg tableau
FehlbergStages ==
    [rungeKuttaFehlberg45 |-> 6, rungeKuttaFehlberg56 |-> 8,
     rungeKuttaFehlberg78 |-> 13]

\* the orders each coefficient set is to carry
ExpectedOrders ==
    [rungeKuttaFehlberg45 |-> <<4, 5, "lower">>,
     rungeKuttaFehlberg56 |-> <<5, 6, "lower">>,
     rungeKuttaFehlberg78 |-> <<7, 8, "lower">>,
     rungeKutta87DormandPrince |-> <<7, 8, "higher">>]

\* C24: over any sequence of get( ) calls by one caller, the initialiser of a
\* coefficient set has run exactly once as soon as the first get for that set
\* has returned and never before; every get returns the one initialised
\* table of its set with the orders (4, 5, lower), (5, 6, lower),
\* (7, 8, lower) and (7, 8, higher); and the table of a set other than the
\* one being asked for is never anything but untouched (never asked for) or
\* that initialised table.
C24_InitialisedOnce ==
    \A t \in Callers :
        LET caller == coefficients.callers[t]
        IN  /\ \A s \in CoefficientSets :
                   (caller.pc = "idle" \/ s # caller.coefficientSet) =>
                       IF coefficients.gets[s] > 0
                       THEN /\ coefficients.runs[s] = 1
                            /\ coefficients.tables[s] = InitialisedCoefficients[s]
                       ELSE /\ coefficients.runs[s] = 0
                            /\ coefficients.tables[s] = DefaultCoefficients
            /\ \A s \in CoefficientSets : coefficients.runs[s] <= 1
            /\ (caller.pc = "idle" /\ caller.obtained # <<>>) =>
                   LET table == caller.obtained[1]
                   IN  /\ table = InitialisedCoefficients[caller.coefficientSet]
                       /\ <<table.lowerOrder, table.higherOrder,
                            table.orderEstimateToIntegrate>>
                              = ExpectedOrders[caller.coefficientSet]

\* the caller has been given the Fehlberg 5(6) table a second time, and
\* another set has been initialised in between
C24_Witness ==
    /\ coefficients.status = "static"
    /\ Len(coefficients.callers) = 1
    /\ coefficients.callers[1].pc = "idle"
    /\ coefficients.callers[1].obtained # <<>>
    /\ coefficients.callers[1].coefficientSet = "rungeKuttaFehlberg56"
    /\ coefficients.gets["rungeKuttaFehlberg56"] = 2
    /\ coefficients.gets["rungeKutta87DormandPrince"] = 1

\* the tableau `table` with `stages` stages is consistent
ConsistentTableau(table, stages) ==
    /\ DOMAIN table.cCoefficients = 0..(stages - 1)
    /\ DOMAIN table.aCoefficients = 0..(stages - 1)
    /\ \A i \in 0..(stages - 1) :
           table.cCoefficients[i] = RowSum(table.aCoefficients[i], stages - 1)
    /\ DOMAIN table.bCoefficients = 0..1
    /\ \A k \in 0..1 : RowSum(table.bCoefficients[k], stages) = ROne

\* C25: a Fehlberg table that get( ) has returned (6, 8 and 13 stages) is
\* consistent in exact rational arithmetic: c( i ) is the sum of row i of a
\* for every stage i, and each of the two rows of b sums to 1.
C25_ConsistentTableaux ==
    \A t \in Callers :
        LET caller == coefficients.callers[t]
        IN  (/\ Len(coefficients.callers) = 1
             /\ caller.pc = "idle"
             /\ caller.obtained # <<>>
             /\ caller.coefficientSet \in FehlbergSets) =>
                ConsistentTableau(caller.obtained[1],
                                  FehlbergStages[caller.coefficientSet])

\* all three Fehlberg tables have been returned, the 7(8) one last
C25_Witness ==
    /\ coefficients.status = "static"
    /\ Len(coefficients.callers) = 1
    /\ coefficients.callers[1].pc = "idle"
    /\ coefficients.callers[1].obtained # <<>>
    /\ coefficients.callers[1].coefficientSet = "rungeKuttaFehlberg78"
    /\ \A s \in FehlbergSets : coefficients.gets[s] = 1

\* C26: with two threads inside get( ) for one set that was not initialised,
\* no thread is handed a table whose a-, c- or b-coefficients are not those
\* the initialiser writes.
C26_NoPartialTable ==
    \A t \in Callers :
        LET caller == coefficients.callers[t]
        IN  (Len(coefficients.callers) = 2 /\ caller.obtained # <<>>) =>
                LET table == caller.obtained[1]
                    full == InitialisedCoefficients[caller.coefficientSet]
                IN  /\ table.aCoefficients = full.aCoefficients
                    /\ table.cCoefficients = full.cCoefficients
                    /\ table.bCoefficients = full.bCoefficients

\* C27: converting a conventional state with convertFromOutputSolution and
\* back with convertToOutputSolution keeps the angular velocity of every
\* body: rows 6i+3 .. 6i+5 of the propagated state, and rows 7i+4 .. 7i+6
\* of the state converted back, equal rows 7i+4 .. 7i+6 of the
\* conventional state.
C27_AngularVelocityPreserved ==
    rotation.status \in {"converted", "output"} =>
        \A i \in 0..(rotation.bodiesToPropagate_ - 1) :
            /\ Segment(rotation.currentState, 6 * i + 3, 3)
                   = Segment(rotation.outputSolution, 7 * i + 4, 3)
            /\ rotation.status = "output" =>
                   Segment(rotation.currentQuaternionLocalSolution_, 7 * i + 4, 3)
                       = Segment(rotation.outputSolution, 7 * i + 4, 3)

\* what postProcessState is to do to body i and the bodies after it
RECURSIVE ShadowWherePastPi(_, _, _, _)
ShadowWherePastPi(state, startRow, bodies, i) ==
    IF i >= bodies THEN state
    ELSE LET e == Segment(state, startRow + 6 * i, 3)
         IN  ShadowWherePastPi(
                 IF ~RLess(RNorm(e), RInt(PI))
                 THEN WithSegment(state, startRow + 6 * i, 3, Shadow(e, RNorm(e)))
                 ELSE state,
                 startRow, bodies, i + 1)

\* C28: for every startRow, postProcessState replaces the exponential-map
\* vector e of body i (rows startRow+6i .. startRow+6i+2) by e (1 - 2 pi/|e|)
\* exactly when |e| >= pi, deciding from those rows, and leaves all other
\* rows as they were.
C28_ShadowExactlyPastPi ==
    rotation.status = "postProcessed" =>
        rotation.processedState =
            ShadowWherePastPi(rotation.unprocessedState, rotation.startRow,
                              rotation.bodiesToPropagate_, 0)

\* C29: getDerivativeFunctionWrtStateOfIntegratedBody ends in an error for
\* rotational_state always and for translational_state or body_mass_state
\* whenever the second name of the reference point is not empty; otherwise
\* it returns (empty function, 0) for custom_state, and for body_mass_state
\* the function wrtMassOfBody with size 1 exactly when
\* isMassRatePartialWrtMassNonZero( ) is true and (empty function, 0) when
\* it is false; whenever it returns, the function is callable exactly when
\* the size is not 0.
C29_DerivativeFunction ==
    (massRate.status = "constructed" /\ massRate.call # <<>>) =>
        LET stateReferencePoint == massRate.call[1]
            integratedStateType == massRate.call[2]
            outcome == massRate.partialFunction[1]
            Empty == outcome.status = "ok" /\ outcome.function = "empty"
                         /\ outcome.size = 0
        IN  /\ integratedStateType = "rotational_state" =>
                   outcome.status = "runtime_error"
            /\ (/\ integratedStateType \in {"translational_state", "body_mass_state"}
                /\ stateReferencePoint[2] # "") =>
                   outcome.status = "runtime_error"
            /\ (/\ integratedStateType \in {"translational_state", "body_mass_state",
                                            "custom_state"}
                /\ (integratedStateType = "custom_state" \/ stateReferencePoint[2] = "")) =>
                   outcome.status = "ok"
            /\ integratedStateType = "custom_state" => Empty
            /\ (integratedStateType = "body_mass_state" /\ stateReferencePoint[2] = "") =>
                   IF isMassRatePartialWrtMassNonZero(massRate)
                   THEN /\ outcome.status = "ok"
                        /\ outcome.function = "wrtMassOfBody"
                        /\ outcome.size = 1
                   ELSE Empty
            /\ outcome.status = "ok" =>
                   (outcome.function # "empty" <=> outcome.size # 0)

\* a partial without mass-dependent thrust sources has been asked for the
\* partial with respect to the body mass and has returned the empty function
C29_Witness ==
    /\ massRate.status = "constructed"
    /\ massRate.call = <<<<"Vehicle", "">>, "body_mass_state">>
    /\ Len(massRate.thrustAccelerations_) = 1
    /\ ~isMassRatePartialWrtMassNonZero(massRate)
    /\ massRate.partialFunction[1] = PartialFunction("ok", "empty", 0)

\* the thrust sources of a thrust acceleration that are not force-based
MassDependent(thrustSources) ==
    SelectSeq(thrustSources, LAMBDA engine : ~engine.modelIsForceBased)

\* C30: the constructor ends without an error and leaves under key i exactly
\* the thrust sources of thrust acceleration i that are not force-based,
\* each once and in order, and no key i when there are none; so
\* isMassRatePartialWrtMassNonZero( ) is true exactly when some thrust
\* acceleration has a source that is not force-based.
C30_MassDependentSources ==
    massRate.status # "none" =>
        /\ massRate.status = "constructed"
        /\ \A i \in 0..(Len(massRate.thrustAccelerations_) - 1) :
               LET expected == MassDependent(massRate.thrustAccelerations_[i + 1])
               IN  IF expected = <<>>
                   THEN i \notin DOMAIN massRate.accelerationBasedThrustSources_
                   ELSE /\ i \in DOMAIN massRate.accelerationBasedThrustSources_
                        /\ massRate.accelerationBasedThrustSources_[i] = expected
        /\ isMassRatePartialWrtMassNonZero(massRate)
               <=> \E i \in 1..Len(massRate.thrustAccelerations_) :
                       MassDependent(massRate.thrustAccelerations_[i]) # <<>>
=============================================================================
